---- MODULE Spec2Model ----
(***************************************************************************)
(* Verification model of octave-ndjson.                                    *)
(*                                                                         *)
(*   Spec        MultithreadedParser: the round-robin worker pool          *)
(*               (source/multithreaded_parser.hpp)                         *)
(*   SpecSchema  Schema::is_same on schemas built by build_schema          *)
(*               (source/schema.cpp, source/ndjson_load.cpp)               *)
(*   SpecMulti   load_multi: block partition of the lines over threads     *)
(*               (source/ndjson_load.cpp)                                  *)
(*   SpecLoad    load, called directly or by load_multi                    *)
(*               (source/ndjson_load.cpp)                                  *)
(*   SpecDecode  parse_octave_value on one JSON array                      *)
(*               (source/parse_octave_value.hpp)                           *)
(*   SpecTwice   the same load, on the same input and mode, run twice      *)
(*               (source/ndjson_load.cpp)                                  *)
(***************************************************************************)
EXTENDS Integers, Sequences, FiniteSets, TLC

VARIABLES
    \* ---- MultithreadedParser ----
    m_concurrency,   \* number of worker threads / slots
    m_index,         \* round-robin cursor
    m_wake_flag,     \* slot -> BOOLEAN (std::atomic<bool>)
    m_inputs,        \* slot -> Input{m_string, m_line_number}
    m_futures,       \* slot -> ParseResult
    stop_requested,  \* slot -> BOOLEAN (the jthread's stop token)
    thread_pc,       \* slot -> position of thread_function
    caller_pc,       \* position of the thread that owns the pool
    index,           \* local `index` of parse() / drain()
    prev_result,     \* local `prev_result` of parse()
    loop_i,          \* loop counter `i` of drain() and of the destructor
    remaining,       \* local `remaining` of drain()
    submitted,       \* history: the texts given to parse(), in call order
    returned,        \* history: the values returned by the parse() calls
    drain_result,    \* history: the value returned by drain()
    drain_slots,     \* history: the slot each element of drain_result came from
    drain_cursor,    \* history: m_index when drain() was entered
    produced,        \* history: line number -> outcomes stored by workers
    \* ---- Schema::is_same ----
    doc_a,           \* the document the schema `*this` is built from
    doc_b,           \* the document the schema `other` is built from
    schema_a,        \* m_parts of `*this`
    schema_b,        \* m_parts of `other`
    same,            \* dynamic_array -> value returned by is_same
    schema_pc,       \* "start", "built"
    \* ---- load_multi ----
    string,          \* the input text, a sequence of text units
    mode,            \* ParseMode: "Strict", "DynamicArray" or "Relaxed"
    lines,           \* util::split(string, '\n')
    concurrency,     \* number of parser threads
    block_size,      \* lines per thread
    cell,            \* the output Cell, one octave_value per line
    exception,       \* the exception kept for the rethrow
    exception_index, \* std::atomic<std::size_t>: line index of the failure
    reference_schema,\* m_parts of the first line's schema
    block_pc,        \* thread -> position of parse_fn
    block_i,         \* thread -> loop counter `i` of parse_fn
    threads,         \* number of threads emplaced so far
    multi_pc,        \* position of load_multi
    multi_result,    \* what load_multi returns or raises
    decode_count,    \* history: line -> times parse_octave_value ran on it
    \* ---- load ----
    loader,          \* the function the caller invoked: "load" or "load_multi"
    docs,            \* std::vector<octave_value> docs
    load_reference,  \* std::optional<Schema> reference_schema
    load_it,         \* the document the stream iterator is at, from 1
    load_pc,         \* position of load
    load_result,     \* what load returns or raises
    load_decoded,    \* history: documents given to parse_octave_value, in order
    load_compared,   \* history: documents compared with the reference, in order
    \* ---- parse_octave_value ----
    json,            \* the simdjson::dom::element given to parse_octave_value
    decoded,         \* the octave_value it returns
    decode_pc,       \* "start", "done"
    \* ---- two runs of a load ----
    run,             \* 1 during the first run, 2 during the second
    first_run        \* what the first run returned, and its thread count

poolVars == << m_concurrency, m_index, m_wake_flag, m_inputs, m_futures,
               stop_requested, thread_pc, caller_pc, index, prev_result,
               loop_i, remaining, submitted, returned, drain_result,
               drain_slots, drain_cursor, produced >>

schemaVars == << doc_a, doc_b, schema_a, schema_b, same, schema_pc >>

multiVars == << string, mode, lines, concurrency, block_size, cell, exception,
                exception_index, reference_schema, block_pc, block_i, threads,
                multi_pc, multi_result, decode_count >>

loadVars == << loader, docs, load_reference, load_it, load_pc, load_result,
               load_decoded, load_compared >>

decodeVars == << json, decoded, decode_pc >>

runVars == << run, first_run >>

vars == << poolVars, schemaVars, multiVars, loadVars, decodeVars, runVars >>

-----------------------------------------------------------------------------
(* Bounds *)

MaxWorkers == 2
MaxJobs == 4
\* Largest number of schema parts of an enumerated document
MaxParts == 6
\* Largest number of lines of an input of load_multi
MaxLines == 4
\* Largest number of documents of an input of load
MaxDocs == 3
\* Largest number of elements of the array given to parse_octave_value
MaxElems == 3
\* jobs submitted to the pool in the runs checked for progress
MaxLiveJobs == 2
\* Largest number of characters of a text given to split
MaxChars == 5
\* Largest value std::thread::hardware_concurrency() returns
MaxHardwareThreads == 6

-----------------------------------------------------------------------------
(* ParseResult, multithreaded_parser.hpp *)

\* Texts handed to the pool: one that simdjson accepts and one it rejects.
JsonTexts == {"[1]", "{"}

IsValidJson(str) == str = "[1]"

\* ParseResult(): m_result = monostate, m_info = {"", 0}
EmptyResult == [kind |-> "Empty", string |-> "", line |-> 0]

\* ParseResult(value, schema, string, line_number)
ParsedResult(str, line_number) ==
    [kind |-> "Parsed", string |-> str, line |-> line_number]

\* ParseResult(exception, string, line_number, offset)
ErrorResult(str, line_number) ==
    [kind |-> "Error", string |-> str, line |-> line_number]

is_empty(result) == result.kind = "Empty"

\* Input{}: m_string empty, m_line_number = 0
EmptyInput == [m_string |-> "", m_line_number |-> 0]

\* The try/catch of thread_function: what is stored for an input.
Decode(input) ==
    IF IsValidJson(input.m_string)
    THEN ParsedResult(input.m_string, input.m_line_number)
    ELSE ErrorResult(input.m_string, input.m_line_number)

Slots == 0 .. (m_concurrency - 1)

-----------------------------------------------------------------------------
(* MultithreadedParser(concurrency) *)

PoolInit ==
    /\ m_concurrency \in 1 .. MaxWorkers
    /\ m_index = 0
    /\ m_wake_flag = [s \in 0 .. (m_concurrency - 1) |-> FALSE]
    /\ m_inputs = [s \in 0 .. (m_concurrency - 1) |-> EmptyInput]
    /\ m_futures = [s \in 0 .. (m_concurrency - 1) |-> EmptyResult]
    /\ stop_requested = [s \in 0 .. (m_concurrency - 1) |-> FALSE]
    /\ thread_pc = [s \in 0 .. (m_concurrency - 1) |-> "loop"]
    /\ caller_pc = "idle"
    /\ index = 0
    /\ prev_result = EmptyResult
    /\ loop_i = 0
    /\ remaining = << >>
    /\ submitted = << >>
    /\ returned = << >>
    /\ drain_result = << >>
    /\ drain_slots = << >>
    /\ drain_cursor = 0
    /\ produced = [n \in 1 .. MaxJobs |-> 0]

-----------------------------------------------------------------------------
(* thread_function(stop_token, index) *)

ThreadLoop_NoCheck(i) ==
    /\ thread_pc[i] = "loop"
    /\ thread_pc' = [thread_pc EXCEPT ![i] = "wait"]
    /\ UNCHANGED << m_concurrency, m_index, m_wake_flag, m_inputs, m_futures,
                    stop_requested, caller_pc, index, prev_result, loop_i,
                    remaining, submitted, returned, drain_result, drain_slots,
                    drain_cursor, produced >>

\* while (not stop_token.stop_requested())
ThreadLoop(i) ==
    /\ thread_pc[i] = "loop"
    /\ thread_pc' = [thread_pc EXCEPT ![i] =
                        IF stop_requested[i] THEN "exit" ELSE "wait"]
    /\ UNCHANGED << m_concurrency, m_index, m_wake_flag, m_inputs, m_futures,
                    stop_requested, caller_pc, index, prev_result, loop_i,
                    remaining, submitted, returned, drain_result, drain_slots,
                    drain_cursor, produced >>

ThreadWait_NoWait(i) ==
    /\ thread_pc[i] = "wait"
    /\ thread_pc' = [thread_pc EXCEPT ![i] = "check"]
    /\ UNCHANGED << m_concurrency, m_index, m_wake_flag, m_inputs, m_futures,
                    stop_requested, caller_pc, index, prev_result, loop_i,
                    remaining, submitted, returned, drain_result, drain_slots,
                    drain_cursor, produced >>

\* flag.wait(false): returns once the flag is observed true
ThreadWait(i) ==
    /\ thread_pc[i] = "wait"
    /\ m_wake_flag[i] = TRUE
    /\ thread_pc' = [thread_pc EXCEPT ![i] = "check"]
    /\ UNCHANGED << m_concurrency, m_index, m_wake_flag, m_inputs, m_futures,
                    stop_requested, caller_pc, index, prev_result, loop_i,
                    remaining, submitted, returned, drain_result, drain_slots,
                    drain_cursor, produced >>

\* if (stop_token.stop_requested()) break;
ThreadCheck(i) ==
    /\ thread_pc[i] = "check"
    /\ thread_pc' = [thread_pc EXCEPT ![i] =
                        IF stop_requested[i] THEN "exit" ELSE "parse"]
    /\ UNCHANGED << m_concurrency, m_index, m_wake_flag, m_inputs, m_futures,
                    stop_requested, caller_pc, index, prev_result, loop_i,
                    remaining, submitted, returned, drain_result, drain_slots,
                    drain_cursor, produced >>

\* try { ... output = ParseResult{value, schema, string, line_number}; }
\* catch (...) { output = ParseResult{exception, string, line_number, offset}; }
ThreadParse(i) ==
    /\ thread_pc[i] = "parse"
    /\ m_futures' = [m_futures EXCEPT ![i] = Decode(m_inputs[i])]
    /\ produced' = IF m_inputs[i].m_line_number \in DOMAIN produced
                   THEN [produced EXCEPT ![m_inputs[i].m_line_number] = @ + 1]
                   ELSE produced
    /\ thread_pc' = [thread_pc EXCEPT ![i] = "clear"]
    /\ UNCHANGED << m_concurrency, m_index, m_wake_flag, m_inputs,
                    stop_requested, caller_pc, index, prev_result, loop_i,
                    remaining, submitted, returned, drain_result, drain_slots,
                    drain_cursor >>

ThreadClear_DiesOnError(i) ==
    /\ thread_pc[i] = "clear"
    /\ IF m_futures[i].kind = "Error"
       THEN /\ thread_pc' = [thread_pc EXCEPT ![i] = "exit"]
            /\ UNCHANGED m_wake_flag
       ELSE /\ m_wake_flag' = [m_wake_flag EXCEPT ![i] = FALSE]
            /\ thread_pc' = [thread_pc EXCEPT ![i] = "loop"]
    /\ UNCHANGED << m_concurrency, m_index, m_inputs, m_futures,
                    stop_requested, caller_pc, index, prev_result, loop_i,
                    remaining, submitted, returned, drain_result, drain_slots,
                    drain_cursor, produced >>

\* flag = false; flag.notify_one();
ThreadClear(i) ==
    /\ thread_pc[i] = "clear"
    /\ m_wake_flag' = [m_wake_flag EXCEPT ![i] = FALSE]
    /\ thread_pc' = [thread_pc EXCEPT ![i] = "loop"]
    /\ UNCHANGED << m_concurrency, m_index, m_inputs, m_futures,
                    stop_requested, caller_pc, index, prev_result, loop_i,
                    remaining, submitted, returned, drain_result, drain_slots,
                    drain_cursor, produced >>

-----------------------------------------------------------------------------
(* parse(string, line_number) *)

\* The owner calls parse() with the next line; line numbers count the calls.
ParseCall(str) ==
    /\ caller_pc = "idle"
    /\ Len(submitted) < MaxJobs
    /\ submitted' = Append(submitted, str)
    /\ caller_pc' = "parse_wait"
    /\ UNCHANGED << m_concurrency, m_index, m_wake_flag, m_inputs, m_futures,
                    stop_requested, thread_pc, index, prev_result, loop_i,
                    remaining, returned, drain_result, drain_slots,
                    drain_cursor, produced >>

ParseWait_NoWait ==
    /\ caller_pc = "parse_wait"
    /\ index' = m_index
    /\ caller_pc' = "parse_exchange"
    /\ UNCHANGED << m_concurrency, m_index, m_wake_flag, m_inputs, m_futures,
                    stop_requested, thread_pc, prev_result, loop_i,
                    remaining, submitted, returned, drain_result, drain_slots,
                    drain_cursor, produced >>

\* auto index = m_index; m_wake_flag[index].wait(true);
ParseWait ==
    /\ caller_pc = "parse_wait"
    /\ m_wake_flag[m_index] = FALSE
    /\ index' = m_index
    /\ caller_pc' = "parse_exchange"
    /\ UNCHANGED << m_concurrency, m_index, m_wake_flag, m_inputs, m_futures,
                    stop_requested, thread_pc, prev_result, loop_i,
                    remaining, submitted, returned, drain_result, drain_slots,
                    drain_cursor, produced >>

ParseExchange_NoReset ==
    /\ caller_pc = "parse_exchange"
    /\ prev_result' = m_futures[index]
    /\ caller_pc' = "parse_write"
    /\ UNCHANGED << m_concurrency, m_index, m_wake_flag, m_inputs, m_futures,
                    stop_requested, thread_pc, index, loop_i,
                    remaining, submitted, returned, drain_result, drain_slots,
                    drain_cursor, produced >>

\* auto prev_result = std::exchange(m_futures[index], {});
ParseExchange ==
    /\ caller_pc = "parse_exchange"
    /\ prev_result' = m_futures[index]
    /\ m_futures' = [m_futures EXCEPT ![index] = EmptyResult]
    /\ caller_pc' = "parse_write"
    /\ UNCHANGED << m_concurrency, m_index, m_wake_flag, m_inputs,
                    stop_requested, thread_pc, index, loop_i,
                    remaining, submitted, returned, drain_result, drain_slots,
                    drain_cursor, produced >>

\* m_inputs[index] = Input{ string, line_number };
ParseWrite ==
    /\ caller_pc = "parse_write"
    /\ m_inputs' = [m_inputs EXCEPT ![index] =
                       [m_string |-> submitted[Len(submitted)],
                        m_line_number |-> Len(submitted)]]
    /\ caller_pc' = "parse_set"
    /\ UNCHANGED << m_concurrency, m_index, m_wake_flag, m_futures,
                    stop_requested, thread_pc, index, prev_result, loop_i,
                    remaining, submitted, returned, drain_result, drain_slots,
                    drain_cursor, produced >>

\* m_wake_flag[index] = true; m_wake_flag[index].notify_one();
ParseSet ==
    /\ caller_pc = "parse_set"
    /\ m_wake_flag' = [m_wake_flag EXCEPT ![index] = TRUE]
    /\ caller_pc' = "parse_return"
    /\ UNCHANGED << m_concurrency, m_index, m_inputs, m_futures,
                    stop_requested, thread_pc, index, prev_result, loop_i,
                    remaining, submitted, returned, drain_result, drain_slots,
                    drain_cursor, produced >>

ParseReturn_NoAdvance ==
    /\ caller_pc = "parse_return"
    /\ returned' = Append(returned, prev_result)
    /\ caller_pc' = "idle"
    /\ UNCHANGED << m_concurrency, m_index, m_wake_flag, m_inputs, m_futures,
                    stop_requested, thread_pc, index, prev_result, loop_i,
                    remaining, submitted, drain_result, drain_slots,
                    drain_cursor, produced >>

\* m_index = (index + 1) % m_concurrency; return prev_result;
ParseReturn ==
    /\ caller_pc = "parse_return"
    /\ m_index' = (index + 1) % m_concurrency
    /\ returned' = Append(returned, prev_result)
    /\ caller_pc' = "idle"
    /\ UNCHANGED << m_concurrency, m_wake_flag, m_inputs, m_futures,
                    stop_requested, thread_pc, index, prev_result, loop_i,
                    remaining, submitted, drain_result, drain_slots,
                    drain_cursor, produced >>

-----------------------------------------------------------------------------
(* drain() *)

\* auto remaining = std::vector<ParseResult>{};  (called once, after the
\* submission loop)
DrainCall ==
    /\ caller_pc = "idle"
    /\ remaining' = << >>
    /\ drain_slots' = << >>
    /\ drain_cursor' = m_index
    /\ loop_i' = 0
    /\ caller_pc' = IF 0 < m_concurrency THEN "drain_wait" ELSE "drain_return"
    /\ UNCHANGED << m_concurrency, m_index, m_wake_flag, m_inputs, m_futures,
                    stop_requested, thread_pc, index, prev_result,
                    submitted, returned, drain_result, produced >>

DrainWait_NoWait ==
    /\ caller_pc = "drain_wait"
    /\ index' = (m_index + loop_i) % m_concurrency
    /\ caller_pc' = "drain_exchange"
    /\ UNCHANGED << m_concurrency, m_index, m_wake_flag, m_inputs, m_futures,
                    stop_requested, thread_pc, prev_result, loop_i,
                    remaining, submitted, returned, drain_result, drain_slots,
                    drain_cursor, produced >>

DrainWait_FromZero ==
    /\ caller_pc = "drain_wait"
    /\ m_wake_flag[loop_i % m_concurrency] = FALSE
    /\ index' = loop_i % m_concurrency
    /\ caller_pc' = "drain_exchange"
    /\ UNCHANGED << m_concurrency, m_index, m_wake_flag, m_inputs, m_futures,
                    stop_requested, thread_pc, prev_result, loop_i,
                    remaining, submitted, returned, drain_result, drain_slots,
                    drain_cursor, produced >>

\* auto index = (m_index + i) % m_concurrency; m_wake_flag[index].wait(true);
DrainWait ==
    /\ caller_pc = "drain_wait"
    /\ m_wake_flag[(m_index + loop_i) % m_concurrency] = FALSE
    /\ index' = (m_index + loop_i) % m_concurrency
    /\ caller_pc' = "drain_exchange"
    /\ UNCHANGED << m_concurrency, m_index, m_wake_flag, m_inputs, m_futures,
                    stop_requested, thread_pc, prev_result, loop_i,
                    remaining, submitted, returned, drain_result, drain_slots,
                    drain_cursor, produced >>

DrainExchange_KeepEmpty ==
    /\ caller_pc = "drain_exchange"
    /\ m_futures' = [m_futures EXCEPT ![index] = EmptyResult]
    /\ remaining' = Append(remaining, m_futures[index])
    /\ drain_slots' = Append(drain_slots, index)
    /\ loop_i' = loop_i + 1
    /\ caller_pc' = IF loop_i + 1 < m_concurrency
                    THEN "drain_wait" ELSE "drain_return"
    /\ UNCHANGED << m_concurrency, m_index, m_wake_flag, m_inputs,
                    stop_requested, thread_pc, index, prev_result,
                    submitted, returned, drain_result, drain_cursor, produced >>

\* if (auto result = std::exchange(m_futures[index], {}); not result.is_empty())
\*     remaining.push_back(std::move(result));
DrainExchange ==
    /\ caller_pc = "drain_exchange"
    /\ m_futures' = [m_futures EXCEPT ![index] = EmptyResult]
    /\ IF ~ is_empty(m_futures[index])
       THEN /\ remaining' = Append(remaining, m_futures[index])
            /\ drain_slots' = Append(drain_slots, index)
       ELSE UNCHANGED << remaining, drain_slots >>
    /\ loop_i' = loop_i + 1
    /\ caller_pc' = IF loop_i + 1 < m_concurrency
                    THEN "drain_wait" ELSE "drain_return"
    /\ UNCHANGED << m_concurrency, m_index, m_wake_flag, m_inputs,
                    stop_requested, thread_pc, index, prev_result,
                    submitted, returned, drain_result, drain_cursor, produced >>

\* return remaining;
DrainReturn ==
    /\ caller_pc = "drain_return"
    /\ drain_result' = remaining
    /\ caller_pc' = "drained"
    /\ UNCHANGED << m_concurrency, m_index, m_wake_flag, m_inputs, m_futures,
                    stop_requested, thread_pc, index, prev_result, loop_i,
                    remaining, submitted, returned, drain_slots,
                    drain_cursor, produced >>

-----------------------------------------------------------------------------
(* ~MultithreadedParser() *)

\* The pool may be destroyed between two calls of its owner.
DestructorCall ==
    /\ caller_pc \in {"idle", "drained"}
    /\ loop_i' = 0
    /\ caller_pc' = IF 0 < m_concurrency THEN "dtor_stop" ELSE "dtor_join"
    /\ UNCHANGED << m_concurrency, m_index, m_wake_flag, m_inputs, m_futures,
                    stop_requested, thread_pc, index, prev_result,
                    remaining, submitted, returned, drain_result, drain_slots,
                    drain_cursor, produced >>

\* m_threads[i].request_stop();
DestructorStop ==
    /\ caller_pc = "dtor_stop"
    /\ stop_requested' = [stop_requested EXCEPT ![loop_i] = TRUE]
    /\ caller_pc' = "dtor_wake"
    /\ UNCHANGED << m_concurrency, m_index, m_wake_flag, m_inputs, m_futures,
                    thread_pc, index, prev_result, loop_i,
                    remaining, submitted, returned, drain_result, drain_slots,
                    drain_cursor, produced >>

\* m_wake_flag[i] = true; m_wake_flag[i].notify_one();
DestructorWake ==
    /\ caller_pc = "dtor_wake"
    /\ m_wake_flag' = [m_wake_flag EXCEPT ![loop_i] = TRUE]
    /\ loop_i' = loop_i + 1
    /\ caller_pc' = IF loop_i + 1 < m_concurrency THEN "dtor_stop" ELSE "dtor_join"
    /\ UNCHANGED << m_concurrency, m_index, m_inputs, m_futures,
                    stop_requested, thread_pc, index, prev_result,
                    remaining, submitted, returned, drain_result, drain_slots,
                    drain_cursor, produced >>

\* m_threads is destroyed: every std::jthread is joined.
DestructorJoin ==
    /\ caller_pc = "dtor_join"
    /\ \A s \in Slots : thread_pc[s] = "exit"
    /\ caller_pc' = "done"
    /\ UNCHANGED << m_concurrency, m_index, m_wake_flag, m_inputs, m_futures,
                    stop_requested, thread_pc, index, prev_result, loop_i,
                    remaining, submitted, returned, drain_result, drain_slots,
                    drain_cursor, produced >>

-----------------------------------------------------------------------------
(* Documents: simdjson::dom::element, as build_schema reads it *)

\* A scalar element with its value: an integer for the number types, a
\* one-character string, a boolean; 0 stands for "no value".
ValueDoc(type, value) ==
    [type |-> type, keys |-> << >>, elems |-> << >>, value |-> value]

\* The scalar element of a type with a representative value.
ScalarDoc(type) ==
    CASE type = "STRING" -> ValueDoc(type, "x")
      [] type = "BOOL" -> ValueDoc(type, TRUE)
      [] type = "NULL_VALUE" -> ValueDoc(type, 0)
      [] OTHER -> ValueDoc(type, 1)

ArrayDoc(elems) == [type |-> "ARRAY", keys |-> << >>, elems |-> elems, value |-> 0]
ObjectDoc(keys, elems) == [type |-> "OBJECT", keys |-> keys, elems |-> elems, value |-> 0]

\* Scalar element types and field names of the enumerated documents
ScalarTypes == {"INT64", "STRING"}
Keys == {"a", "b"}

RECURSIVE DocsOfSize(_), ElemSeqs(_), FieldSeqs(_)

\* The documents whose schema has exactly n parts.
DocsOfSize(n) ==
    IF n < 1 THEN {}
    ELSE IF n = 1 THEN {ScalarDoc(t) : t \in ScalarTypes}
    ELSE {ArrayDoc(es) : es \in ElemSeqs(n - 2)}
         \cup {ObjectDoc(f.keys, f.elems) : f \in FieldSeqs(n - 2)}

\* The element lists whose schemas have m parts in total.
ElemSeqs(m) ==
    IF m = 0 THEN {<< >>}
    ELSE UNION {{<< d >> \o rest : d \in DocsOfSize(j), rest \in ElemSeqs(m - j)} :
                   j \in 1 .. m}

\* The field lists (a key part and the value's parts per field) of m parts.
FieldSeqs(m) ==
    IF m = 0 THEN {[keys |-> << >>, elems |-> << >>]}
    ELSE UNION {{[keys |-> << k >> \o rest.keys, elems |-> << d >> \o rest.elems] :
                    k \in Keys, d \in DocsOfSize(j), rest \in FieldSeqs(m - 1 - j)} :
                   j \in 1 .. (m - 1)}

\* {"a":[1,2]}, {"a":[1,2,3,"x"]}, {"a":1,"b":2}, {"b":2,"a":1}
DocA12 == ObjectDoc(<< "a" >>, << ArrayDoc(<< ScalarDoc("INT64"), ScalarDoc("INT64") >>) >>)
DocA123x ==
    ObjectDoc(<< "a" >>, << ArrayDoc(<< ScalarDoc("INT64"), ScalarDoc("INT64"),
                                        ScalarDoc("INT64"), ScalarDoc("STRING") >>) >>)
DocAB == ObjectDoc(<< "a", "b" >>, << ScalarDoc("INT64"), ScalarDoc("INT64") >>)
DocBA == ObjectDoc(<< "b", "a" >>, << ScalarDoc("INT64"), ScalarDoc("INT64") >>)
\* [1, 2.5, 18446744073709551615, true, null], {"a":2.5}
DocScalars ==
    ArrayDoc(<< ScalarDoc("INT64"), ScalarDoc("DOUBLE"), ScalarDoc("UINT64"),
                ScalarDoc("BOOL"), ScalarDoc("NULL_VALUE") >>)
DocADouble == ObjectDoc(<< "a" >>, << ScalarDoc("DOUBLE") >>)

ExampleDocs == {DocA12, DocA123x, DocAB, DocBA, DocScalars, DocADouble}

Docs == UNION {DocsOfSize(n) : n \in 1 .. MaxParts} \cup ExampleDocs

-----------------------------------------------------------------------------
(* Schema::Part and build_schema *)

\* Part = std::variant<Scalar, Object, Array, Key>
ScalarPart(kind) == [tag |-> "Scalar", val |-> kind]
ObjectBegin == [tag |-> "Object", val |-> "Begin"]
ObjectEnd == [tag |-> "Object", val |-> "End"]
ArrayBegin == [tag |-> "Array", val |-> "Begin"]
ArrayEnd == [tag |-> "Array", val |-> "End"]
KeyPart(key) == [tag |-> "Key", val |-> key]

\* Schema::push
push(m_parts, part) == Append(m_parts, part)

reset_Keep(m_parts) == m_parts

\* Schema::reset: m_parts.clear()
reset(m_parts) == << >>

RECURSIVE build_schema(_, _), build_array(_, _, _), build_object(_, _, _, _)

\* for (auto v : simdjson::dom::array{ elem }) build_schema(schema, v);
build_array(schema, elems, k) ==
    IF k > Len(elems) THEN schema
    ELSE build_array(build_schema(schema, elems[k]), elems, k + 1)

\* for (auto [k, v] : simdjson::dom::object{ elem }) { push(Key); build_schema }
build_object(schema, keys, elems, k) ==
    IF k > Len(elems) THEN schema
    ELSE build_object(build_schema(push(schema, KeyPart(keys[k])), elems[k]),
                      keys, elems, k + 1)

build_schema(schema, elem) ==
    CASE elem.type = "ARRAY" ->
            push(build_array(push(schema, ArrayBegin), elem.elems, 1), ArrayEnd)
      [] elem.type = "OBJECT" ->
            push(build_object(push(schema, ObjectBegin), elem.keys, elem.elems, 1),
                 ObjectEnd)
      [] elem.type = "INT64" -> push(schema, ScalarPart("Number"))
      [] elem.type = "UINT64" -> push(schema, ScalarPart("Number"))
      [] elem.type = "DOUBLE" -> push(schema, ScalarPart("Number"))
      [] elem.type = "STRING" -> push(schema, ScalarPart("String"))
      [] elem.type = "BOOL" -> push(schema, ScalarPart("Bool"))
      [] elem.type = "NULL_VALUE" -> push(schema, ScalarPart("Null"))

-----------------------------------------------------------------------------
(* Schema::is_same *)

part_equal_IgnoreKeyName(a, b) ==
    a.tag = b.tag /\ (a.tag = "Key" \/ a.val = b.val)

part_equal_LeftStringAny(a, b) ==
    \/ a.tag = b.tag /\ a.val = b.val
    \/ a = ScalarPart("String") /\ b.tag = "Scalar"

\* operator== of Part: same alternative and same value (Key compares m_key)
part_equal(a, b) == a.tag = b.tag /\ a.val = b.val

RECURSIVE strict_loop(_, _, _)

\* for (auto i : sv::iota(0u, m_parts.size()))
\*     if (m_parts[i] != other.m_parts[i]) return false;
\* return true;
strict_loop(m_parts, other, i) ==
    IF i > Len(m_parts) THEN TRUE
    ELSE IF ~ part_equal(m_parts[i], other[i]) THEN FALSE
    ELSE strict_loop(m_parts, other, i + 1)

is_same_strict_SkipsLast(m_parts, other) ==
    IF Len(m_parts) # Len(other) THEN FALSE
    ELSE \A i \in 1 .. (Len(m_parts) - 1) : part_equal(m_parts[i], other[i])

\* the branch `not dynamic_array`
is_same_strict(m_parts, other) ==
    IF Len(m_parts) # Len(other) THEN FALSE
    ELSE strict_loop(m_parts, other, 1)

\* The iterator value that stands for a read of *i at or past end().
PastEnd == 0 - 1

RECURSIVE skip_loop(_, _, _, _)

\* do { ++i; <count *i> } while ((obj_count > 0 or arr_count > 0) and i != end);
\* i is the position before ++i; the result is the position the loop ends at.
skip_loop(m_parts, i, obj_count, arr_count) ==
    LET next == i + 1 IN
    IF next > Len(m_parts) THEN PastEnd
    ELSE LET part == m_parts[next]
             arr == IF part = ArrayBegin THEN arr_count + 1
                    ELSE IF part = ArrayEnd THEN arr_count - 1
                    ELSE arr_count
             obj == IF part = ObjectBegin THEN obj_count + 1
                    ELSE IF part = ObjectEnd THEN obj_count - 1
                    ELSE obj_count
         IN IF obj > 0 \/ arr > 0
            THEN skip_loop(m_parts, next, obj, arr)
            ELSE next

RECURSIVE first_array_end(_, _)
first_array_end(m_parts, i) ==
    IF i + 1 > Len(m_parts) THEN PastEnd
    ELSE IF m_parts[i + 1] = ArrayEnd THEN i + 1
    ELSE first_array_end(m_parts, i + 1)

skip_array_FirstEnd(m_parts, i) == first_array_end(m_parts, i)

\* if (*i == Part{ Array::Begin }) { auto obj_count = 0; auto arr_count = 1; do ... }
skip_array(m_parts, i) == skip_loop(m_parts, i, 0, 1)

RECURSIVE is_same_walk_SkipLeftOnly(_, _, _, _)
is_same_walk_SkipLeftOnly(m_parts, other, i, j) ==
    IF i > Len(m_parts) \/ j > Len(other)
    THEN IF i <= Len(m_parts) \/ j <= Len(other) THEN "false" ELSE "true"
    ELSE IF ~ part_equal(m_parts[i], other[j]) THEN "false"
    ELSE LET i2 == IF m_parts[i] = ArrayBegin THEN skip_array(m_parts, i) ELSE i
         IN IF i2 = PastEnd THEN "undefined"
            ELSE is_same_walk_SkipLeftOnly(m_parts, other, i2 + 1, j + 1)

RECURSIVE is_same_walk(_, _, _, _)

\* while (i != m_parts.end() and j != other.m_parts.end()) { ... ++i; ++j; }
\* if (i != m_parts.end() or j != other.m_parts.end()) return false;
\* return true;
\* "undefined": the loop dereferenced an iterator at end().
is_same_walk(m_parts, other, i, j) ==
    IF i > Len(m_parts) \/ j > Len(other)
    THEN IF i <= Len(m_parts) \/ j <= Len(other) THEN "false" ELSE "true"
    ELSE IF ~ part_equal(m_parts[i], other[j]) THEN "false"
    ELSE LET i2 == IF m_parts[i] = ArrayBegin THEN skip_array(m_parts, i) ELSE i
             j2 == IF other[j] = ArrayBegin THEN skip_array(other, j) ELSE j
         IN IF i2 = PastEnd \/ j2 = PastEnd THEN "undefined"
            ELSE is_same_walk(m_parts, other, i2 + 1, j2 + 1)

\* The values is_same may return: one value, or either when the walk is
\* undefined behaviour.
is_same(m_parts, other, dynamic_array) ==
    IF ~ dynamic_array
    THEN {is_same_strict(m_parts, other)}
    ELSE LET r == is_same_walk(m_parts, other, 1, 1)
         IN IF r = "undefined" THEN BOOLEAN ELSE {r = "true"}

-----------------------------------------------------------------------------
(* octave_value, as parse_octave_value builds it *)

\* A double: a number, or NaN
Double(n) == [nan |-> FALSE, num |-> n]
NaN == [nan |-> TRUE, num |-> 0]
\* An element of a freshly allocated NDArray that was never assigned
Unassigned == [nan |-> TRUE, num |-> 1]

\* class: "double", "bool", "char", "cell", "struct" or "undefined";
\* dims: the dim_vector; data: the elements in linear (column-major) order;
\* for a struct, keys are the field names in insertion order and data[j] is
\* the list (one entry per struct element) of the values of field keys[j].
OctaveValue(class, dims, data, keys) ==
    [class |-> class, dims |-> dims, data |-> data, keys |-> keys]

\* octave_value{}
UndefinedValue == OctaveValue("undefined", << 0, 0 >>, << >>, << >>)
\* NDArray{}
EmptyMatrix == OctaveValue("double", << 0, 0 >>, << >>, << >>)
DoubleScalar(n) == OctaveValue("double", << 1, 1 >>, << Double(n) >>, << >>)
BoolScalar(b) == OctaveValue("bool", << 1, 1 >>, << b >>, << >>)
CharString(str) == OctaveValue("char", << 1, 1 >>, << str >>, << >>)
\* NDArray / boolNDArray / Cell { dim_vector(n, 1) } holding data
Column(class, data) == OctaveValue(class, << Len(data), 1 >>, data, << >>)

isnumeric(v) == v.class = "double"
iscell(v) == v.class = "cell"
isstruct(v) == v.class = "struct"
\* a 1x1 bool matrix is narrowed to a bool scalar when it becomes an octave_value
is_bool_matrix(v) == v.class = "bool" /\ v.dims # << 1, 1 >>

RECURSIVE Product(_)
Product(dims) == IF Len(dims) = 0 THEN 1 ELSE Head(dims) * Product(Tail(dims))

numel(v) == Product(v.dims)

RECURSIVE chop_trailing_singletons(_)
chop_trailing_singletons(dims) ==
    IF Len(dims) > 2 /\ dims[Len(dims)] = 1
    THEN chop_trailing_singletons(SubSeq(dims, 1, Len(dims) - 1))
    ELSE dims

IndexOf(keys, key) ==
    IF \E j \in 1 .. Len(keys) : keys[j] = key
    THEN CHOOSE j \in 1 .. Len(keys) : keys[j] = key
    ELSE 0

\* octave_scalar_map::assign / setfield: a known key keeps its position
assign(map, key, value) ==
    LET j == IndexOf(map.keys, key) IN
    IF j = 0
    THEN [map EXCEPT !.keys = Append(@, key), !.data = Append(@, << value >>)]
    ELSE [map EXCEPT !.data[j] = << value >>]

\* octave_map::getfield: the Cell of the field's values; empty if unknown
getfield(map, key) ==
    LET j == IndexOf(map.keys, key) IN
    IF j = 0 THEN << >> ELSE map.data[j]

\* octave_scalar_map::getfield: an undefined value if the field is unknown
getfield_scalar(map, key) ==
    LET j == IndexOf(map.keys, key) IN
    IF j = 0 THEN UndefinedValue ELSE map.data[j][1]

\* octave_scalar_map{}
EmptyScalarMap == OctaveValue("struct", << 1, 1 >>, << >>, << >>)

-----------------------------------------------------------------------------
(* parse_octave_value.hpp: detail_parse::decode *)

is_number(elem) == elem.type \in {"INT64", "UINT64", "DOUBLE"}
is_null(elem) == elem.type = "NULL_VALUE"

RECURSIVE decode(_), decode_object_fields(_, _, _, _)
RECURSIVE interleave(_, _, _, _, _, _)

\* for (auto [key, value] : object) map.assign(key, decode(value));
decode_object_fields(map, keys, elems, k) ==
    IF k > Len(elems) THEN map
    ELSE decode_object_fields(assign(map, keys[k], decode(elems[k])),
                              keys, elems, k + 1)

decode_object(object) ==
    decode_object_fields(EmptyScalarMap, object.keys, object.elems, 1)

decode_numeric_array_NullAsZero(array) ==
    Column("double", [k \in 1 .. Len(array) |->
                         IF is_null(array[k]) THEN Double(0)
                         ELSE decode(array[k]).data[1]])

\* ndarray(index++) = elem.is_null() ? octave_NaN : decode(elem).double_value();
decode_numeric_array(array) ==
    Column("double", [k \in 1 .. Len(array) |->
                         IF is_null(array[k]) THEN NaN
                         ELSE decode(array[k]).data[1]])

\* cell(index++) = decode(elem);
decode_string_and_mixed_array(array) ==
    Column("cell", [k \in 1 .. Len(array) |-> decode(array[k])])

\* ndarray(index++) = elem.get_bool().value();
decode_boolean_array(array) ==
    Column("bool", [k \in 1 .. Len(array) |-> array[k].value])

RECURSIVE interleave_SubarrayMajor(_, _, _, _, _, _)
interleave_SubarrayMajor(value, subs, cell_numel, subarray_numel, k, i) ==
    IF k >= cell_numel THEN value
    ELSE IF i >= subarray_numel
    THEN interleave_SubarrayMajor(value, subs, cell_numel, subarray_numel, k + 1, 0)
    ELSE interleave_SubarrayMajor(
             [value EXCEPT ![k * subarray_numel + i + 1] = subs[k + 1][i + 1]],
             subs, cell_numel, subarray_numel, k, i + 1)

RECURSIVE write_positions(_, _, _, _)
\* The positions (from 0) the two loops assign, in the order they assign them
write_positions(cell_numel, subarray_numel, k, i) ==
    IF k >= cell_numel THEN << >>
    ELSE IF i >= subarray_numel
    THEN write_positions(cell_numel, subarray_numel, k + 1, 0)
    ELSE << k + i * cell_numel >> \o
         write_positions(cell_numel, subarray_numel, k, i + 1)

\* for k in 0..cell_numel-1, for i in 0..subarray_numel-1:
\*     value(k + i * cell_numel) = subarray_value(i);
\* subs[k + 1] is the linear data of sub-array k.
interleave(value, subs, cell_numel, subarray_numel, k, i) ==
    IF k >= cell_numel THEN value
    ELSE IF i >= subarray_numel
    THEN interleave(value, subs, cell_numel, subarray_numel, k + 1, 0)
    ELSE interleave([value EXCEPT ![k + i * cell_numel + 1] = subs[k + 1][i + 1]],
                    subs, cell_numel, subarray_numel, k, i + 1)

\* A boolean as a double
to_double(b) == IF b THEN Double(1) ELSE Double(0)

\* octave_value::array_value(): the elements as doubles, in linear order
array_value(v) ==
    IF v.class = "bool" THEN [i \in 1 .. Len(v.data) |-> to_double(v.data[i])]
    ELSE v.data

decode_array_of_arrays(array) ==
    LET array_cell == decode_string_and_mixed_array(array)
        first == array_cell.data[1]
        is_bool == is_bool_matrix(first)
        is_struct == isstruct(first)
        subarray_dims == first.dims
        cell_numel == Len(array_cell.data)
        field_names == IF is_struct THEN first.keys ELSE << >>
        fallback ==
            \E k \in 1 .. cell_numel :
                \/ iscell(array_cell.data[k])
                \/ array_cell.data[k].dims # subarray_dims
                \/ subarray_dims = << 0, 0 >>
                \/ is_bool_matrix(array_cell.data[k]) # is_bool
                \/ isstruct(array_cell.data[k]) # is_struct
                \/ is_struct /\ field_names # array_cell.data[k].keys
        array_dims == << cell_numel >> \o subarray_dims
        subarray_numel == Product(subarray_dims)
        total == Product(array_dims)
    IN  IF fallback THEN array_cell
        ELSE IF is_struct
        THEN OctaveValue("struct", chop_trailing_singletons(array_dims),
                 [j \in 1 .. Len(field_names) |->
                     interleave([p \in 1 .. total |-> UndefinedValue],
                                [k \in 1 .. cell_numel |->
                                    getfield(array_cell.data[k], field_names[j])],
                                cell_numel, subarray_numel, 0, 0)],
                 field_names)
        ELSE LET array_of_array ==
                     interleave([p \in 1 .. total |-> Unassigned],
                                [k \in 1 .. cell_numel |->
                                    array_value(array_cell.data[k])],
                                cell_numel, total \div cell_numel, 0, 0)
             IN  IF is_bool
                 THEN OctaveValue("bool", chop_trailing_singletons(array_dims),
                          [p \in 1 .. total |-> array_of_array[p] # Double(0)],
                          << >>)
                 ELSE OctaveValue("double", chop_trailing_singletons(array_dims),
                          array_of_array, << >>)

decode_object_array_AnyOrder(array) ==
    LET struct_cell == decode_string_and_mixed_array(array)
        field_names == struct_cell.data[1].keys
        same_field_names ==
            \A i \in 2 .. Len(struct_cell.data) :
                {field_names[j] : j \in 1 .. Len(field_names)} =
                    {struct_cell.data[i].keys[j] :
                        j \in 1 .. Len(struct_cell.data[i].keys)}
    IN  IF ~ same_field_names THEN struct_cell
        ELSE OctaveValue("struct", << Len(struct_cell.data), 1 >>,
                 [i \in 1 .. Len(field_names) |->
                     [k \in 1 .. Len(struct_cell.data) |->
                         getfield_scalar(struct_cell.data[k], field_names[i])]],
                 field_names)

\* field_names.std_list() != current_field_names.std_list(): the names are
\* compared as lists, in field order.
decode_object_array(array) ==
    LET struct_cell == decode_string_and_mixed_array(array)
        field_names == struct_cell.data[1].keys
        same_field_names ==
            \A i \in 2 .. Len(struct_cell.data) :
                field_names = struct_cell.data[i].keys
    IN  IF ~ same_field_names THEN struct_cell
        ELSE OctaveValue("struct", << Len(struct_cell.data), 1 >>,
                 [i \in 1 .. Len(field_names) |->
                     [k \in 1 .. Len(struct_cell.data) |->
                         getfield_scalar(struct_cell.data[k], field_names[i])]],
                 field_names)

decode_array(array) ==
    IF Len(array) = 0 THEN EmptyMatrix
    ELSE LET last_type == array[1].type
             is_numeric == \A k \in 1 .. Len(array) :
                               is_number(array[k]) \/ is_null(array[k])
             same_type == \A k \in 1 .. Len(array) : array[k].type = last_type
         IN  IF is_numeric THEN decode_numeric_array(array)
             ELSE IF ~ same_type \/ last_type = "STRING"
             THEN decode_string_and_mixed_array(array)
             ELSE IF last_type = "BOOL" THEN decode_boolean_array(array)
             ELSE IF last_type = "OBJECT" THEN decode_object_array(array)
             ELSE decode_array_of_arrays(array)

decode(dom) ==
    CASE dom.type = "ARRAY" -> decode_array(dom.elems)
      [] dom.type = "OBJECT" -> decode_object(dom)
      [] dom.type = "INT64" -> DoubleScalar(dom.value)
      [] dom.type = "UINT64" -> DoubleScalar(dom.value)
      [] dom.type = "DOUBLE" -> DoubleScalar(dom.value)
      [] dom.type = "STRING" -> CharString(dom.value)
      [] dom.type = "BOOL" -> BoolScalar(dom.value)
      [] dom.type = "NULL_VALUE" -> EmptyMatrix

parse_octave_value(dom) == decode(dom)

-----------------------------------------------------------------------------
(* Two documents, their schemas, and the comparisons of the two schemas *)

SchemaInit ==
    /\ doc_a \in Docs
    /\ doc_b \in Docs
    /\ schema_a = << >>
    /\ schema_b = << >>
    /\ same = << >>
    /\ schema_pc = "start"

\* schema.reset(); detail::build_schema(schema, dom.value());
\* The one Schema object is reused: the reference is a copy of it after the
\* first document, and it is reset before the second document is encoded.
BuildSchemas ==
    /\ schema_pc = "start"
    /\ schema_a' = build_schema(reset(<< >>), doc_a)
    /\ schema_b' = build_schema(reset(build_schema(reset(<< >>), doc_a)), doc_b)
    /\ schema_pc' = "built"
    /\ UNCHANGED << doc_a, doc_b, same >>

\* reference_schema.is_same(schema, dynamic_array)
IsSameCall(dynamic_array) ==
    /\ schema_pc = "built"
    /\ dynamic_array \notin DOMAIN same
    /\ \E result \in is_same(schema_a, schema_b, dynamic_array) :
          same' = [d \in DOMAIN same \cup {dynamic_array} |->
                      IF d = dynamic_array THEN result ELSE same[d]]
    /\ UNCHANGED << doc_a, doc_b, schema_a, schema_b, schema_pc >>

\* The variables of a component that a specification does not run.
PoolParked ==
    /\ m_concurrency = 1
    /\ m_index = 0
    /\ m_wake_flag = [s \in {0} |-> FALSE]
    /\ m_inputs = [s \in {0} |-> EmptyInput]
    /\ m_futures = [s \in {0} |-> EmptyResult]
    /\ stop_requested = [s \in {0} |-> FALSE]
    /\ thread_pc = [s \in {0} |-> "loop"]
    /\ caller_pc = "unused"
    /\ index = 0
    /\ prev_result = EmptyResult
    /\ loop_i = 0
    /\ remaining = << >>
    /\ submitted = << >>
    /\ returned = << >>
    /\ drain_result = << >>
    /\ drain_slots = << >>
    /\ drain_cursor = 0
    /\ produced = << >>

SchemaParked ==
    /\ doc_a = ScalarDoc("NULL_VALUE")
    /\ doc_b = ScalarDoc("NULL_VALUE")
    /\ schema_a = << >>
    /\ schema_b = << >>
    /\ same = << >>
    /\ schema_pc = "unused"

-----------------------------------------------------------------------------
(* util.hpp: StringSplitter and split, on a text of units *)

\* A text is a sequence of units: a newline, the text of one document, or
\* text that is not JSON.  The unit at size() is the terminator of the
\* std::string the view was made from.
Newline == ValueDoc("NEWLINE", 0)
Malformed == ValueDoc("MALFORMED", 0)
Terminator == ValueDoc("NUL", 0)

\* m_str[m_idx], m_idx counted from 0
CharAt(m_str, m_idx) ==
    IF m_idx < Len(m_str) THEN m_str[m_idx + 1] ELSE Terminator

RECURSIVE skip_delims(_, _), find_delim(_, _), split_from(_, _, _)

\* while (m_idx <= m_str.size() and m_str[m_idx] == m_delim) ++m_idx;
skip_delims(m_str, m_idx) ==
    IF m_idx <= Len(m_str) /\ CharAt(m_str, m_idx) = Newline
    THEN skip_delims(m_str, m_idx + 1)
    ELSE m_idx

\* std::ranges::find(m_str | std::views::drop(m_idx), m_delim); size() is end
find_delim(m_str, m_idx) ==
    IF m_idx >= Len(m_str) THEN Len(m_str)
    ELSE IF m_str[m_idx + 1] = Newline THEN m_idx
    ELSE find_delim(m_str, m_idx + 1)

\* StringSplitter::next: has_value is false for std::nullopt
next(m_str, m_idx) ==
    IF m_idx >= Len(m_str)
    THEN [has_value |-> FALSE, res |-> << >>, m_idx |-> m_idx]
    ELSE LET from == skip_delims(m_str, m_idx)
             pos == find_delim(m_str, from)
         IN  IF pos = Len(m_str)
             THEN [has_value |-> TRUE,
                   res |-> SubSeq(m_str, from + 1, Len(m_str)),
                   m_idx |-> Len(m_str)]
             ELSE [has_value |-> TRUE,
                   res |-> SubSeq(m_str, from + 1, pos),
                   m_idx |-> pos + 1]

\* while (auto line = splitter.next()) res.push_back(line.value());
split_from(m_str, m_idx, res) ==
    LET line == next(m_str, m_idx) IN
    IF ~ line.has_value THEN res
    ELSE split_from(m_str, line.m_idx, Append(res, line.res))

split(str) == split_from(str, 0, << >>)

RECURSIVE split_reads(_, _)
\* The indices k (from 0) at which the scan of next() evaluates m_str[k], over
\* all the calls split makes from m_idx on: the loop test reads m_str[m_idx]
\* whenever m_idx <= m_str.size().
split_reads(m_str, m_idx) ==
    IF m_idx >= Len(m_str) THEN {}
    ELSE LET from == skip_delims(m_str, m_idx) IN
         (m_idx .. (IF from <= Len(m_str) THEN from ELSE Len(m_str)))
             \cup split_reads(m_str, next(m_str, m_idx).m_idx)

-----------------------------------------------------------------------------
(* load_multi(string, mode) *)

\* The texts a line of the input may hold: {"a":[1,2]}, {"a":[1,2,3,"x"]},
\* or text that is not JSON.
LineUnits == {DocA12, DocA123x, Malformed}

ParseModes == {"Strict", "DynamicArray", "Relaxed"}

RECURSIVE JoinLines(_)
\* Every line of the input ends with a newline.
JoinLines(units) ==
    IF Len(units) = 0 THEN << >>
    ELSE << Head(units), Newline >> \o JoinLines(Tail(units))

InputStrings ==
    UNION {{JoinLines(units) : units \in [1 .. n -> LineUnits]} : n \in 0 .. MaxLines}

\* simdjson::dom::parser::parse(line): an error unless the line is one document
parse_error(line) ==
    Len(line) # 1 \/ line[1].type \in {"MALFORMED", "NEWLINE", "NUL"}

\* std::numeric_limits<std::size_t>::max()
no_exception == 0 - 1

NoException == [what |-> "none", number |-> 0]
SimdjsonError == [what |-> "simdjson_error", number |-> 0]
\* "Mismatched schema ... (document number: {2:})"
MismatchedSchema(number) == [what |-> "Mismatched schema", number |-> number]

\* What a loader hands back: status "ok" with the value, "error" for an Octave
\* error (what: the cause; number: the document number the cause names;
\* line / offset: the place the message names), "crash" for a dead process.
Result(status, value, what, number, line, offset) ==
    [status |-> status, value |-> value, what |-> what, number |-> number,
     line |-> line, offset |-> offset]

NoResult == Result("none", UndefinedValue, "", 0, 0, 0)
Returned(value) == Result("ok", value, "", 0, 0, 0)
\* error("%s", message): "Parsing error > {what} ... (line: {line})"
ParsingError(e, line) ==
    Result("error", UndefinedValue, e.what, e.number, line, 0)
\* octave's error for scalar_map_value() / cell_value() of a value of another type
WrongTypeError == Result("error", UndefinedValue, "wrong type argument", 0, 0, 0)

\* Schema::root_is_object (schema.cpp): m_parts.front() == Part{ Object::Begin }
root_is_object(m_parts) == Len(m_parts) > 0 /\ m_parts[1] = ObjectBegin

Max(a, b) == IF a > b THEN a ELSE b
Min(a, b) == IF a < b THEN a ELSE b

Threads == 0 .. (concurrency - 1)

MultiInit ==
    /\ string \in InputStrings
    /\ mode \in ParseModes
    /\ lines = << >>
    /\ concurrency = 0
    /\ block_size = 0
    /\ cell = << >>
    /\ exception = NoException
    /\ exception_index = no_exception
    /\ reference_schema = << >>
    /\ block_pc = << >>
    /\ block_i = << >>
    /\ threads = 0
    /\ multi_pc = "split"
    /\ multi_result = NoResult
    /\ decode_count = << >>

\* auto lines = util::split(string, '\n');
\* size 0: return NDArray{};  size 1: return load(string, mode);
\* otherwise concurrency, block_size, cell, exception_index are set up.
MultiSplit(hardware_concurrency) ==
    /\ multi_pc = "split"
    /\ LET ls == split(string)
           rem_size == Len(ls) - 1
           c == IF Max(hardware_concurrency \div 2, 1) < rem_size
                THEN Max(hardware_concurrency \div 2, 1) ELSE rem_size
       IN  /\ lines' = ls
           /\ decode_count' = [k \in 1 .. Len(ls) |-> 0]
           /\ IF Len(ls) = 0
              THEN /\ multi_result' = Returned(EmptyMatrix)
                   /\ multi_pc' = "done"
                   /\ UNCHANGED << concurrency, block_size, cell, block_pc, block_i >>
              ELSE IF Len(ls) = 1
              THEN /\ multi_pc' = "load"
                   /\ UNCHANGED << multi_result, concurrency, block_size, cell,
                                   block_pc, block_i >>
              ELSE /\ concurrency' = c
                   /\ block_size' = rem_size \div c
                   /\ cell' = [k \in 1 .. Len(ls) |-> UndefinedValue]
                   /\ block_pc' = [t \in 0 .. (c - 1) |-> "unborn"]
                   /\ block_i' = [t \in 0 .. (c - 1) |-> 0]
                   /\ multi_pc' = "first"
                   /\ UNCHANGED multi_result
    /\ UNCHANGED << string, mode, exception, exception_index, reference_schema,
                    threads >>

\* auto dom = parsers[0].parse(first_line...);
\* if (dom.error()) { exception_index = 0; throw ... }
\* else { cell(0) = parse_octave_value(dom.value());
\*        if (mode != Relaxed) build_schema(reference_schema, dom.value()); }
MultiFirst ==
    /\ multi_pc = "first"
    /\ IF parse_error(lines[1])
       THEN /\ exception_index' = 0
            /\ exception' = SimdjsonError
            /\ multi_pc' = "catch"
            /\ UNCHANGED << cell, reference_schema, decode_count >>
       ELSE /\ cell' = [cell EXCEPT ![1] = parse_octave_value(lines[1][1])]
            /\ decode_count' = [decode_count EXCEPT ![1] = @ + 1]
            /\ reference_schema' =
                  IF mode # "Relaxed"
                  THEN build_schema(reference_schema, lines[1][1])
                  ELSE reference_schema
            /\ multi_pc' = "spawn"
            /\ UNCHANGED << exception, exception_index >>
    /\ UNCHANGED << string, mode, lines, concurrency, block_size, block_pc,
                    block_i, threads, multi_result >>

\* The first and the last line (0-based, among rem_lines) of thread t's block:
\* offset = i * block_size; current_size = min(block_size, rem_lines.size() - offset)
BlockOffset_NoStride(t) == 0

BlockOffset(t) == t * block_size
BlockLength(t) == Min(block_size, (Len(lines) - 1) - BlockOffset(t))

\* threads.emplace_back(parse_fn, std::ref(parsers[i]), block, offset);
MultiSpawn ==
    /\ multi_pc = "spawn"
    /\ IF threads < concurrency
       THEN /\ block_pc' = [block_pc EXCEPT ![threads] = "check"]
            /\ threads' = threads + 1
            /\ UNCHANGED multi_pc
       ELSE /\ multi_pc' = "join"
            /\ UNCHANGED << block_pc, threads >>
    /\ UNCHANGED << string, mode, lines, concurrency, block_size, cell, exception,
                    exception_index, reference_schema, block_i, multi_result,
                    decode_count >>

\* for (auto i = 0u; auto line : block) {
\*     if (exception_index != max) break;
BlockCheck(t) ==
    /\ block_pc[t] = "check"
    /\ block_pc' = [block_pc EXCEPT ![t] =
                       IF block_i[t] >= BlockLength(t) THEN "finished"
                       ELSE IF exception_index # no_exception THEN "finished"
                       ELSE "parse"]
    /\ UNCHANGED << string, mode, lines, concurrency, block_size, cell, exception,
                    exception_index, reference_schema, block_i, threads, multi_pc,
                    multi_result, decode_count >>

\* The line thread t is at (1-based in lines): the first line is skipped.
BlockLine(t) == BlockOffset(t) + block_i[t] + 2

\* try { auto dom = parser.parse(line...).value();
\*       cell(offset + i + 1) = parse_octave_value(dom);
\*       if (mode != Relaxed) { schema.reset(); build_schema(schema, dom);
\*           if (not reference_schema.is_same(schema, mode == DynamicArray)) throw } }
\* ++i  (when nothing was thrown)
BlockParse(t) ==
    /\ block_pc[t] = "parse"
    /\ LET line == lines[BlockLine(t)] IN
       IF parse_error(line)
       THEN /\ block_pc' = [block_pc EXCEPT ![t] = "catch_simdjson"]
            /\ UNCHANGED << cell, decode_count, block_i >>
       ELSE /\ cell' = [cell EXCEPT ![BlockLine(t)] = parse_octave_value(line[1])]
            /\ decode_count' = [decode_count EXCEPT ![BlockLine(t)] = @ + 1]
            /\ \E is_same_result \in
                     IF mode = "Relaxed" THEN {TRUE}
                     ELSE is_same(reference_schema, build_schema(<< >>, line[1]),
                                  mode = "DynamicArray") :
                  IF is_same_result
                  THEN /\ block_i' = [block_i EXCEPT ![t] = @ + 1]
                       /\ block_pc' = [block_pc EXCEPT ![t] = "check"]
                  ELSE /\ block_pc' = [block_pc EXCEPT ![t] = "catch_schema"]
                       /\ UNCHANGED block_i
    /\ UNCHANGED << string, mode, lines, concurrency, block_size, exception,
                    exception_index, reference_schema, threads, multi_pc,
                    multi_result >>

BlockCatch_PlainStore(t) ==
    /\ block_pc[t] \in {"catch_simdjson", "catch_schema"}
    /\ exception_index' = BlockLine(t) - 1
    /\ block_pc' = [block_pc EXCEPT ![t] =
                       IF block_pc[t] = "catch_schema"
                       THEN "store_schema" ELSE "store_simdjson"]
    /\ UNCHANGED << string, mode, lines, concurrency, block_size, cell, exception,
                    reference_schema, threads, multi_pc, multi_result,
                    decode_count, block_i >>

\* catch (...) { auto idx = offset + i + 1;
\*     if (auto i = no_exception; exception_index.compare_exchange_strong(i, idx))
BlockCatch(t) ==
    /\ block_pc[t] \in {"catch_simdjson", "catch_schema"}
    /\ IF exception_index = no_exception
       THEN /\ exception_index' = BlockLine(t) - 1
            /\ block_pc' = [block_pc EXCEPT ![t] =
                               IF block_pc[t] = "catch_schema"
                               THEN "store_schema" ELSE "store_simdjson"]
            /\ UNCHANGED block_i
       ELSE /\ block_i' = [block_i EXCEPT ![t] = @ + 1]
            /\ block_pc' = [block_pc EXCEPT ![t] = "check"]
            /\ UNCHANGED exception_index
    /\ UNCHANGED << string, mode, lines, concurrency, block_size, cell, exception,
                    reference_schema, threads, multi_pc, multi_result,
                    decode_count >>

\*         exception = std::current_exception(); }
\* ++i;
BlockStore(t) ==
    /\ block_pc[t] \in {"store_simdjson", "store_schema"}
    /\ exception' = IF block_pc[t] = "store_schema"
                    THEN MismatchedSchema(BlockLine(t))
                    ELSE SimdjsonError
    /\ block_i' = [block_i EXCEPT ![t] = @ + 1]
    /\ block_pc' = [block_pc EXCEPT ![t] = "check"]
    /\ UNCHANGED << string, mode, lines, concurrency, block_size, cell,
                    exception_index, reference_schema, threads, multi_pc,
                    multi_result, decode_count >>

\* for (auto& thread : threads) thread.join();
\* if (exception_index != no_exception) std::rethrow_exception(exception);
MultiJoin ==
    /\ multi_pc = "join"
    /\ \A t \in Threads : block_pc[t] = "finished"
    /\ multi_pc' = IF exception_index # no_exception THEN "catch" ELSE "assemble"
    /\ UNCHANGED << string, mode, lines, concurrency, block_size, cell, exception,
                    exception_index, reference_schema, block_pc, block_i, threads,
                    multi_result, decode_count >>

\* catch (std::exception& e) { auto line = lines[exception_index]; ...
\*     error("%s", message.c_str());   (line: exception_index + 1)
MultiCatch ==
    /\ multi_pc = "catch"
    /\ multi_result' = ParsingError(exception, exception_index + 1)
    /\ multi_pc' = "done"
    /\ UNCHANGED << string, mode, lines, concurrency, block_size, cell, exception,
                    exception_index, reference_schema, block_pc, block_i, threads,
                    decode_count >>

\* The value load_multi returns from the filled cell (lines 309-336).
assemble(c, m_parts, parse_mode) ==
    IF Len(c) = 1
    THEN IF root_is_object(m_parts)
         THEN IF isstruct(c[1]) THEN Returned(c[1]) ELSE WrongTypeError
         ELSE IF isnumeric(c[1]) THEN Returned(c[1])
         ELSE IF iscell(c[1]) THEN Returned(c[1])
         ELSE WrongTypeError
    ELSE IF parse_mode # "Relaxed" /\ root_is_object(m_parts)
    THEN IF ~ isstruct(c[1]) THEN WrongTypeError
         ELSE LET field_names == c[1].keys IN
              IF Len(field_names) # 0
              THEN IF \E k \in 1 .. Len(c) : ~ isstruct(c[k]) THEN WrongTypeError
                   ELSE Returned(OctaveValue("struct", << Len(c), 1 >>,
                            [i \in 1 .. Len(field_names) |->
                                [k \in 1 .. Len(c) |->
                                    getfield_scalar(c[k], field_names[i])]],
                            field_names))
              ELSE Returned(Column("cell", c))
    ELSE Returned(Column("cell", c))

MultiAssemble ==
    /\ multi_pc = "assemble"
    /\ multi_result' = assemble(cell, reference_schema, mode)
    /\ multi_pc' = "done"
    /\ UNCHANGED << string, mode, lines, concurrency, block_size, cell, exception,
                    exception_index, reference_schema, block_pc, block_i, threads,
                    decode_count >>

MultiParked ==
    /\ string = << >>
    /\ mode = "Strict"
    /\ lines = << >>
    /\ concurrency = 0
    /\ block_size = 0
    /\ cell = << >>
    /\ exception = NoException
    /\ exception_index = no_exception
    /\ reference_schema = << >>
    /\ block_pc = << >>
    /\ block_i = << >>
    /\ threads = 0
    /\ multi_pc = "unused"
    /\ multi_result = NoResult
    /\ decode_count = << >>

-----------------------------------------------------------------------------
(* load(string, mode) *)

\* {"a":1}, {"a":2,"b":3}, {}, [1,2], [true,false], [{"a":1},{"a":1}], "x"
ObjA1 == ObjectDoc(<< "a" >>, << ValueDoc("INT64", 1) >>)
ObjA2B3 == ObjectDoc(<< "a", "b" >>, << ValueDoc("INT64", 2), ValueDoc("INT64", 3) >>)
EmptyObject == ObjectDoc(<< >>, << >>)
Arr12 == ArrayDoc(<< ValueDoc("INT64", 1), ValueDoc("INT64", 2) >>)
ArrTF == ArrayDoc(<< ValueDoc("BOOL", TRUE), ValueDoc("BOOL", FALSE) >>)
ArrObjs == ArrayDoc(<< ObjA1, ObjA1 >>)
StringX == ValueDoc("STRING", "x")

\* The texts a document of the input of load may be
LoadUnits == {ObjA1, ObjA2B3, EmptyObject, DocA12, DocA123x, Arr12, ArrTF,
              ArrObjs, StringX, Malformed}

LoadStrings ==
    UNION {{JoinLines(units) : units \in [1 .. n -> LoadUnits]} : n \in 0 .. MaxDocs}

\* parser.parse_many(string): the documents of the text, white space between
\* them skipped
Documents(str) == SelectSeq(str, LAMBDA unit : unit # Newline)

RECURSIVE DocumentOffsets(_, _)
\* it.current_index() of each document: where its text starts in the string
DocumentOffsets(str, from) ==
    IF from >= Len(str) THEN << >>
    ELSE IF str[from + 1] = Newline THEN DocumentOffsets(str, from + 1)
    ELSE << from >> \o DocumentOffsets(str, from + 1)

\* std::optional<Schema>{} and an optional holding a schema
NoSchema == [has_value |-> FALSE, m_parts |-> << >>]
SomeSchema(m_parts) == [has_value |-> TRUE, m_parts |-> m_parts]

\* error("%s", message): "Parsing error > {what} ... (at offset: {offset})"
LoadError(e, offset) ==
    Result("error", UndefinedValue, e.what, e.number, 0, offset)

\* The process does not survive (a read through an invalid pointer).
Crashed == Result("crash", UndefinedValue, "", 0, 0, 0)

reference_after_Latest(reference, schema) == SomeSchema(schema)

\* if (not reference_schema.has_value()) reference_schema = schema;
reference_after(reference, schema) ==
    IF reference.has_value THEN reference ELSE SomeSchema(schema)

\* One turn of the loop over the stream (lines 99-154), for document load_it.
LoadNext ==
    /\ load_pc = "loop"
    /\ load_it <= Len(Documents(string))
    /\ LET dom == Documents(string)[load_it]
           offset == DocumentOffsets(string, 0)[load_it]
           parsed == parse_octave_value(dom)
           schema == build_schema(<< >>, dom)
           reference == reference_after(load_reference, schema)
       IN  IF dom = Malformed
           THEN \* dom.value() throws simdjson_error
                /\ load_result' = LoadError(SimdjsonError, offset)
                /\ load_pc' = "done"
                /\ UNCHANGED << docs, load_reference, load_it, load_decoded,
                                load_compared >>
           ELSE IF mode = "Relaxed"
           THEN /\ docs' = Append(docs, parsed)
                /\ load_decoded' = Append(load_decoded, load_it)
                /\ load_it' = load_it + 1
                /\ UNCHANGED << load_reference, load_pc, load_result,
                                load_compared >>
           ELSE /\ load_decoded' = Append(load_decoded, load_it)
                /\ load_reference' = reference
                /\ load_compared' = Append(load_compared, load_it)
                /\ \E is_same_result \in
                         is_same(reference.m_parts, schema, mode = "DynamicArray") :
                      IF is_same_result
                      THEN /\ docs' = Append(docs, parsed)
                           /\ load_it' = load_it + 1
                           /\ UNCHANGED << load_pc, load_result >>
                      ELSE \* (document number: docs.size())
                           /\ load_result' =
                                 LoadError(MismatchedSchema(Len(docs)), offset)
                           /\ load_pc' = "done"
                           /\ UNCHANGED << docs, load_it >>
    /\ UNCHANGED << loader, multiVars >>

\* it == stream.end()
LoadEnd ==
    /\ load_pc = "loop"
    /\ load_it > Len(Documents(string))
    /\ load_pc' = "assemble"
    /\ UNCHANGED << loader, docs, load_reference, load_it, load_result,
                    load_decoded, load_compared, multiVars >>

\* reference_schema->root_is_object(): the optional is dereferenced unchecked;
\* without a value the read is of storage that holds no Schema.
RootIsObjectOutcomes(reference) ==
    IF reference.has_value
    THEN {IF root_is_object(reference.m_parts) THEN "true" ELSE "false"}
    ELSE {"true", "false", "crash"}

\* docs[0].scalar_map_value() / array_value() / cell_value() (lines 156-164)
unwrap(value, root) ==
    IF root = "true"
    THEN IF isstruct(value) /\ value.dims = << 1, 1 >> THEN Returned(value)
         ELSE WrongTypeError
    ELSE IF isnumeric(value) THEN Returned(value)
    ELSE IF iscell(value) THEN Returned(value)
    ELSE WrongTypeError

\* A scalar struct: what scalar_map_value() accepts
is_scalar_map(value) == isstruct(value) /\ value.dims = << 1, 1 >>

\* The struct array of lines 167-179: one column per field of c[1]
struct_array(c) ==
    LET field_names == c[1].keys IN
    OctaveValue("struct", << Len(c), 1 >>,
                [i \in 1 .. Len(field_names) |->
                    [k \in 1 .. Len(c) |-> getfield_scalar(c[k], field_names[i])]],
                field_names)

\* Array<octave_value>{ dim_vector{ 1, docs.size() } } filled with docs
RowCell(c) == OctaveValue("cell", << 1, Len(c) >>, c, << >>)

\* What load returns (lines 156-187), root being the outcome of
\* reference_schema->root_is_object() where the code evaluates it.
load_assemble(c, parse_mode, root) ==
    IF Len(c) = 1
    THEN IF root = "crash" THEN Crashed ELSE unwrap(c[1], root)
    ELSE IF parse_mode # "Relaxed" /\ root = "crash" THEN Crashed
    ELSE IF parse_mode # "Relaxed" /\ root = "true"
    THEN IF Len(c) = 0 THEN Crashed
         ELSE IF ~ is_scalar_map(c[1]) THEN WrongTypeError
         ELSE IF Len(c[1].keys) # 0
         THEN IF \E k \in 1 .. Len(c) : ~ is_scalar_map(c[k]) THEN WrongTypeError
              ELSE Returned(struct_array(c))
         ELSE Returned(RowCell(c))
    ELSE Returned(RowCell(c))

LoadAssemble ==
    /\ load_pc = "assemble"
    /\ \E root \in RootIsObjectOutcomes(load_reference) :
          load_result' = load_assemble(docs, mode, root)
    /\ load_pc' = "done"
    /\ UNCHANGED << loader, docs, load_reference, load_it, load_decoded,
                    load_compared, multiVars >>

\* load_multi, lines.size() == 1: return load(string, mode);
MultiLoad ==
    /\ multi_pc = "load"
    /\ load_pc = "idle"
    /\ load_pc' = "loop"
    /\ UNCHANGED << loader, docs, load_reference, load_it, load_result,
                    load_decoded, load_compared, multiVars >>

MultiLoadReturn ==
    /\ multi_pc = "load"
    /\ load_pc = "done"
    /\ multi_result' = load_result
    /\ multi_pc' = "done"
    /\ UNCHANGED << string, mode, lines, concurrency, block_size, cell, exception,
                    exception_index, reference_schema, block_pc, block_i, threads,
                    decode_count, loadVars >>

\* load has not been entered.
LoadIdle ==
    /\ docs = << >>
    /\ load_reference = NoSchema
    /\ load_it = 1
    /\ load_result = NoResult
    /\ load_decoded = << >>
    /\ load_compared = << >>

LoadParked == loader = "unused" /\ load_pc = "unused" /\ LoadIdle

\* The caller invoked load(string, mode).
LoadInit ==
    /\ loader = "load"
    /\ load_pc = "loop"
    /\ LoadIdle
    /\ string \in LoadStrings
    /\ mode \in ParseModes
    /\ lines = << >>
    /\ concurrency = 0
    /\ block_size = 0
    /\ cell = << >>
    /\ exception = NoException
    /\ exception_index = no_exception
    /\ reference_schema = << >>
    /\ block_pc = << >>
    /\ block_i = << >>
    /\ threads = 0
    /\ multi_pc = "unused"
    /\ multi_result = NoResult
    /\ decode_count = << >>

\* The caller invoked load_multi(string, mode).
LoadMultiInit == loader = "load_multi" /\ load_pc = "idle" /\ LoadIdle /\ MultiInit

-----------------------------------------------------------------------------
(* parse_octave_value(dom) on a JSON array *)

Int1 == ValueDoc("INT64", 1)
Int2 == ValueDoc("INT64", 2)
Null == ValueDoc("NULL_VALUE", 0)
True == ValueDoc("BOOL", TRUE)
False == ValueDoc("BOOL", FALSE)
ObjA2 == ObjectDoc(<< "a" >>, << Int2 >>)
ObjB2 == ObjectDoc(<< "b" >>, << Int2 >>)
ObjA1B2 == ObjectDoc(<< "a", "b" >>, << Int1, Int2 >>)
ObjB2A1 == ObjectDoc(<< "b", "a" >>, << Int2, Int1 >>)
Arr21 == ArrayDoc(<< Int2, Int1 >>)
ArrFT == ArrayDoc(<< False, True >>)
Arr1 == ArrayDoc(<< Int1 >>)
Arr1221 == ArrayDoc(<< Arr12, Arr21 >>)

\* The elements the array may hold: 1, 2, null, "x", true, {"a":1}, {"a":2},
\* {"b":2}, {"a":1,"b":2}, {"b":2,"a":1}, [1,2], [2,1], [true,false],
\* [false,true], [1], [[1,2],[2,1]]
DecodeElems == {Int1, Int2, Null, StringX, True, ObjA1, ObjA2, ObjB2, ObjA1B2,
                ObjB2A1, Arr12, Arr21, ArrTF, ArrFT, Arr1, Arr1221}

\* The arrays of n elements.
DecodeInputs(n) == {ArrayDoc(elems) : elems \in [1 .. n -> DecodeElems]}

DecodeInit ==
    /\ \E n \in 0 .. MaxElems : json \in DecodeInputs(n)
    /\ decoded = UndefinedValue
    /\ decode_pc = "start"

\* decoded = parse_octave_value(json)
DecodeCall ==
    /\ decode_pc = "start"
    /\ decoded' = parse_octave_value(json)
    /\ decode_pc' = "done"
    /\ UNCHANGED json

DecodeParked ==
    /\ json = Null
    /\ decoded = UndefinedValue
    /\ decode_pc = "unused"

-----------------------------------------------------------------------------
(* Two runs of the same load *)

RunParked == run = 0 /\ first_run = [result |-> NoResult, concurrency |-> 0]

RunInit == run = 1 /\ first_run = [result |-> NoResult, concurrency |-> 0]

\* The first run has ended; the caller invokes the same loader again with the
\* same string and the same mode.
RunAgain ==
    /\ run = 1
    /\ \/ loader = "load" /\ load_pc = "done"
       \/ loader = "load_multi" /\ multi_pc = "done"
    /\ run' = 2
    /\ first_run' = [result |-> IF loader = "load" THEN load_result ELSE multi_result,
                     concurrency |-> concurrency]
    /\ load_pc' = IF loader = "load" THEN "loop" ELSE "idle"
    /\ multi_pc' = IF loader = "load" THEN "unused" ELSE "split"
    /\ docs' = << >>
    /\ load_reference' = NoSchema
    /\ load_it' = 1
    /\ load_result' = NoResult
    /\ load_decoded' = << >>
    /\ load_compared' = << >>
    /\ lines' = << >>
    /\ concurrency' = 0
    /\ block_size' = 0
    /\ cell' = << >>
    /\ exception' = NoException
    /\ exception_index' = no_exception
    /\ reference_schema' = << >>
    /\ block_pc' = << >>
    /\ block_i' = << >>
    /\ threads' = 0
    /\ multi_result' = NoResult
    /\ decode_count' = << >>
    /\ UNCHANGED << loader, string, mode >>

-----------------------------------------------------------------------------
(* The pool: its owner and its worker threads, interleaved *)

Init ==
    PoolInit /\ SchemaParked /\ MultiParked /\ LoadParked /\ DecodeParked /\ RunParked

\* Steps of the pool leave the other components alone.
PoolOnly == UNCHANGED << schemaVars, multiVars, loadVars, decodeVars, runVars >>

SchemaOnly == UNCHANGED << poolVars, multiVars, loadVars, decodeVars, runVars >>

MultiOnly == UNCHANGED << poolVars, schemaVars, loadVars, decodeVars >>

\* std::thread::hardware_concurrency() is the same in both runs.
SameHardware ==
    /\ UNCHANGED runVars
    /\ (run = 2 /\ multi_pc = "split" /\ Len(lines') >= 2) =>
          concurrency' = first_run.concurrency

Next ==
    \/ \E str \in JsonTexts : ParseCall(str) /\ PoolOnly
    \/ ParseWait /\ PoolOnly
    \/ ParseExchange /\ PoolOnly
    \/ ParseWrite /\ PoolOnly
    \/ ParseSet /\ PoolOnly
    \/ ParseReturn /\ PoolOnly
    \/ DrainCall /\ PoolOnly
    \/ DrainWait /\ PoolOnly
    \/ DrainExchange /\ PoolOnly
    \/ DrainReturn /\ PoolOnly
    \/ DestructorCall /\ PoolOnly
    \/ DestructorStop /\ PoolOnly
    \/ DestructorWake /\ PoolOnly
    \/ DestructorJoin /\ PoolOnly
    \/ \E i \in Slots : ThreadLoop(i) /\ PoolOnly
    \/ \E i \in Slots : ThreadWait(i) /\ PoolOnly
    \/ \E i \in Slots : ThreadCheck(i) /\ PoolOnly
    \/ \E i \in Slots : ThreadParse(i) /\ PoolOnly
    \/ \E i \in Slots : ThreadClear(i) /\ PoolOnly

Spec == Init /\ [][Next]_vars

\* One step of the worker thread of slot i, which the scheduler runs whenever
\* it is not blocked in flag.wait(false).
ThreadStep(i) ==
    /\ i \in Slots
    /\ \/ ThreadLoop(i)
       \/ ThreadWait(i)
       \/ ThreadCheck(i)
       \/ ThreadParse(i)
       \/ ThreadClear(i)
    /\ PoolOnly

\* The steps of the pool while its owner submits at most MaxLiveJobs jobs.
NextLive ==
    \/ \E str \in JsonTexts :
          Len(submitted) < MaxLiveJobs /\ ParseCall(str) /\ PoolOnly
    \/ ParseWait /\ PoolOnly
    \/ ParseExchange /\ PoolOnly
    \/ ParseWrite /\ PoolOnly
    \/ ParseSet /\ PoolOnly
    \/ ParseReturn /\ PoolOnly
    \/ DrainCall /\ PoolOnly
    \/ DrainWait /\ PoolOnly
    \/ DrainExchange /\ PoolOnly
    \/ DrainReturn /\ PoolOnly
    \/ DestructorCall /\ PoolOnly
    \/ DestructorStop /\ PoolOnly
    \/ DestructorWake /\ PoolOnly
    \/ DestructorJoin /\ PoolOnly
    \/ \E i \in Slots : ThreadLoop(i) /\ PoolOnly
    \/ \E i \in Slots : ThreadWait(i) /\ PoolOnly
    \/ \E i \in Slots : ThreadCheck(i) /\ PoolOnly
    \/ \E i \in Slots : ThreadParse(i) /\ PoolOnly
    \/ \E i \in Slots : ThreadClear(i) /\ PoolOnly

\* The pool with every worker thread scheduled fairly.
SpecLive ==
    Init /\ [][NextLive]_vars
         /\ \A i \in 0 .. (MaxWorkers - 1) : WF_vars(ThreadStep(i))

InitSchema ==
    /\ SchemaInit /\ PoolParked /\ MultiParked /\ LoadParked /\ DecodeParked
    /\ RunParked

NextSchema ==
    \/ BuildSchemas /\ SchemaOnly
    \/ \E dynamic_array \in BOOLEAN : IsSameCall(dynamic_array) /\ SchemaOnly

SpecSchema == InitSchema /\ [][NextSchema]_vars

InitMulti ==
    /\ MultiInit /\ PoolParked /\ SchemaParked /\ LoadParked /\ DecodeParked
    /\ RunParked

NextMulti ==
    \/ \E hardware_concurrency \in 0 .. MaxHardwareThreads :
          MultiSplit(hardware_concurrency) /\ MultiOnly /\ UNCHANGED runVars
    \/ MultiFirst /\ MultiOnly /\ UNCHANGED runVars
    \/ MultiSpawn /\ MultiOnly /\ UNCHANGED runVars
    \/ MultiJoin /\ MultiOnly /\ UNCHANGED runVars
    \/ MultiCatch /\ MultiOnly /\ UNCHANGED runVars
    \/ MultiAssemble /\ MultiOnly /\ UNCHANGED runVars
    \/ \E t \in Threads : BlockCheck(t) /\ MultiOnly /\ UNCHANGED runVars
    \/ \E t \in Threads : BlockParse(t) /\ MultiOnly /\ UNCHANGED runVars
    \/ \E t \in Threads : BlockCatch(t) /\ MultiOnly /\ UNCHANGED runVars
    \/ \E t \in Threads : BlockStore(t) /\ MultiOnly /\ UNCHANGED runVars

SpecMulti == InitMulti /\ [][NextMulti]_vars

LoadOnly == UNCHANGED << poolVars, schemaVars, decodeVars >>

LoaderOnly == UNCHANGED << poolVars, schemaVars, decodeVars >>

InitLoad ==
    /\ (LoadInit \/ LoadMultiInit) /\ PoolParked /\ SchemaParked /\ DecodeParked
    /\ RunParked

NextLoad ==
    \/ LoadNext /\ LoadOnly /\ UNCHANGED runVars
    \/ LoadEnd /\ LoadOnly /\ UNCHANGED runVars
    \/ LoadAssemble /\ LoadOnly /\ UNCHANGED runVars
    \/ MultiLoad /\ LoadOnly /\ UNCHANGED runVars
    \/ MultiLoadReturn /\ LoadOnly /\ UNCHANGED runVars
    \/ \E hardware_concurrency \in 0 .. MaxHardwareThreads :
          MultiSplit(hardware_concurrency) /\ MultiOnly /\ UNCHANGED runVars
    \/ MultiFirst /\ MultiOnly /\ UNCHANGED runVars
    \/ MultiSpawn /\ MultiOnly /\ UNCHANGED runVars
    \/ MultiJoin /\ MultiOnly /\ UNCHANGED runVars
    \/ MultiCatch /\ MultiOnly /\ UNCHANGED runVars
    \/ MultiAssemble /\ MultiOnly /\ UNCHANGED runVars
    \/ \E t \in Threads : BlockCheck(t) /\ MultiOnly /\ UNCHANGED runVars
    \/ \E t \in Threads : BlockParse(t) /\ MultiOnly /\ UNCHANGED runVars
    \/ \E t \in Threads : BlockCatch(t) /\ MultiOnly /\ UNCHANGED runVars
    \/ \E t \in Threads : BlockStore(t) /\ MultiOnly /\ UNCHANGED runVars

SpecLoad == InitLoad /\ [][NextLoad]_vars

\* The caller invokes load(string, mode), and afterwards load_multi with the
\* same string and mode.
BothInit ==
    /\ loader = "load"
    /\ load_pc = "loop"
    /\ LoadIdle
    /\ string \in InputStrings
    /\ mode \in ParseModes
    /\ lines = << >>
    /\ concurrency = 0
    /\ block_size = 0
    /\ cell = << >>
    /\ exception = NoException
    /\ exception_index = no_exception
    /\ reference_schema = << >>
    /\ block_pc = << >>
    /\ block_i = << >>
    /\ threads = 0
    /\ multi_pc = "unused"
    /\ multi_result = NoResult
    /\ decode_count = << >>
    /\ RunInit

\* load has ended; the caller invokes load_multi(string, mode).
RunOther ==
    /\ run = 1
    /\ loader = "load"
    /\ load_pc = "done"
    /\ run' = 2
    /\ first_run' = [result |-> load_result, concurrency |-> 0]
    /\ loader' = "load_multi"
    /\ load_pc' = "idle"
    /\ multi_pc' = "split"
    /\ docs' = << >>
    /\ load_reference' = NoSchema
    /\ load_it' = 1
    /\ load_result' = NoResult
    /\ load_decoded' = << >>
    /\ load_compared' = << >>
    /\ UNCHANGED << string, mode, lines, concurrency, block_size, cell, exception,
                    exception_index, reference_schema, block_pc, block_i, threads,
                    multi_result, decode_count >>

InitBoth == BothInit /\ PoolParked /\ SchemaParked /\ DecodeParked

NextBoth ==
    \/ LoadNext /\ LoadOnly /\ UNCHANGED runVars
    \/ LoadEnd /\ LoadOnly /\ UNCHANGED runVars
    \/ LoadAssemble /\ LoadOnly /\ UNCHANGED runVars
    \/ RunOther /\ LoaderOnly
    \/ MultiLoad /\ LoadOnly /\ UNCHANGED runVars
    \/ MultiLoadReturn /\ LoadOnly /\ UNCHANGED runVars
    \/ \E hardware_concurrency \in 0 .. MaxHardwareThreads :
          MultiSplit(hardware_concurrency) /\ MultiOnly /\ UNCHANGED runVars
    \/ MultiFirst /\ MultiOnly /\ UNCHANGED runVars
    \/ MultiSpawn /\ MultiOnly /\ UNCHANGED runVars
    \/ MultiJoin /\ MultiOnly /\ UNCHANGED runVars
    \/ MultiCatch /\ MultiOnly /\ UNCHANGED runVars
    \/ MultiAssemble /\ MultiOnly /\ UNCHANGED runVars
    \/ \E t \in Threads : BlockCheck(t) /\ MultiOnly /\ UNCHANGED runVars
    \/ \E t \in Threads : BlockParse(t) /\ MultiOnly /\ UNCHANGED runVars
    \/ \E t \in Threads : BlockCatch(t) /\ MultiOnly /\ UNCHANGED runVars
    \/ \E t \in Threads : BlockStore(t) /\ MultiOnly /\ UNCHANGED runVars

SpecBoth == InitBoth /\ [][NextBoth]_vars

\* The texts given to split: a character is a document text, text that is
\* not JSON, or a newline.
SplitChars == {DocA12, Malformed, Newline}

SplitStrings(n) == [1 .. n -> SplitChars]

\* auto lines = util::split(string, '\n');  on any text
SplitInit ==
    /\ \E n \in 0 .. MaxChars : string \in SplitStrings(n)
    /\ mode = "Strict"
    /\ lines = << >>
    /\ concurrency = 0
    /\ block_size = 0
    /\ cell = << >>
    /\ exception = NoException
    /\ exception_index = no_exception
    /\ reference_schema = << >>
    /\ block_pc = << >>
    /\ block_i = << >>
    /\ threads = 0
    /\ multi_pc = "split_call"
    /\ multi_result = NoResult
    /\ decode_count = << >>

SplitCall ==
    /\ multi_pc = "split_call"
    /\ lines' = split(string)
    /\ multi_pc' = "split_done"
    /\ UNCHANGED << string, mode, concurrency, block_size, cell, exception,
                    exception_index, reference_schema, block_pc, block_i, threads,
                    multi_result, decode_count >>

InitSplit ==
    /\ SplitInit /\ PoolParked /\ SchemaParked /\ LoadParked /\ DecodeParked
    /\ RunParked

NextSplit == SplitCall /\ MultiOnly /\ UNCHANGED runVars

SpecSplit == InitSplit /\ [][NextSplit]_vars

InitTwice ==
    /\ (LoadInit \/ LoadMultiInit) /\ PoolParked /\ SchemaParked /\ DecodeParked
    /\ RunInit

NextTwice ==
    \/ LoadNext /\ LoadOnly /\ SameHardware
    \/ LoadEnd /\ LoadOnly /\ SameHardware
    \/ LoadAssemble /\ LoadOnly /\ SameHardware
    \/ MultiLoad /\ LoadOnly /\ SameHardware
    \/ MultiLoadReturn /\ LoadOnly /\ SameHardware
    \/ \E hardware_concurrency \in 0 .. MaxHardwareThreads :
          MultiSplit(hardware_concurrency) /\ MultiOnly /\ SameHardware
    \/ MultiFirst /\ MultiOnly /\ SameHardware
    \/ MultiSpawn /\ MultiOnly /\ SameHardware
    \/ MultiJoin /\ MultiOnly /\ SameHardware
    \/ MultiCatch /\ MultiOnly /\ SameHardware
    \/ MultiAssemble /\ MultiOnly /\ SameHardware
    \/ \E t \in Threads : BlockCheck(t) /\ MultiOnly /\ SameHardware
    \/ \E t \in Threads : BlockParse(t) /\ MultiOnly /\ SameHardware
    \/ \E t \in Threads : BlockCatch(t) /\ MultiOnly /\ SameHardware
    \/ \E t \in Threads : BlockStore(t) /\ MultiOnly /\ SameHardware
    \/ RunAgain /\ LoaderOnly

SpecTwice == InitTwice /\ [][NextTwice]_vars

DecodeOnly == UNCHANGED << poolVars, schemaVars, multiVars, loadVars, runVars >>

InitDecode ==
    /\ DecodeInit /\ PoolParked /\ SchemaParked /\ MultiParked /\ LoadParked
    /\ RunParked

NextDecode == DecodeCall /\ DecodeOnly

SpecDecode == InitDecode /\ [][NextDecode]_vars

-----------------------------------------------------------------------------
(* Properties of the pool *)

\* K: the number of jobs submitted so far
SubmittedCount == Len(submitted)

\* The outcome of job n: the n-th text decoded, carrying line number n.
Outcome(n) == Decode([m_string |-> submitted[n], m_line_number |-> n])

NonEmpty(results) == SelectSeq(results, LAMBDA r : ~ is_empty(r))

\* How often the outcome of line n occurs in a sequence of results.
Occurrences(results, n) ==
    Cardinality({j \in 1 .. Len(results) :
                    ~ is_empty(results[j]) /\ results[j].line = n})

\* C1: once drain() has returned, the non-empty results of the parse() calls
\* followed by the results of drain() are the outcomes of jobs 1..K in
\* submission order, on every interleaving of the workers.
C1_PoolOrdering ==
    caller_pc = "drained" =>
        NonEmpty(returned) \o drain_result
            = [n \in 1 .. SubmittedCount |-> Outcome(n)]

C1_Witness ==
    /\ caller_pc = "drained"
    /\ m_concurrency = 2
    /\ SubmittedCount = 3
    /\ NonEmpty(returned) # << >>
    /\ Len(drain_result) = 2
    /\ \E n \in 1 .. 3 : Outcome(n).kind = "Error"

\* C2: each of the first N parse() calls returns an Empty result, and call
\* number i + N returns the completed outcome of the job of call number i.
C2_OneStepBehind ==
    \A c \in 1 .. Len(returned) :
        IF c <= m_concurrency
        THEN is_empty(returned[c])
        ELSE /\ ~ is_empty(returned[c])
             /\ returned[c] = Outcome(c - m_concurrency)

C2_Witness ==
    /\ m_concurrency = 2
    /\ Len(returned) = 3
    /\ returned[3] = Outcome(1)
    /\ is_empty(returned[2])

\* C3 (as claimed): drain() returns exactly N outcomes for every number K >= 0
\* of previously submitted jobs.
C3_DrainReturnsN ==
    caller_pc = "drained" => Len(drain_result) = m_concurrency

\* C3 (amended): drain() returns exactly min(K, N) outcomes, those of the last
\* min(K, N) jobs, taken from the slots in round-robin order starting at the
\* cursor; a slot that never got a job contributes nothing.
C3_DrainReturnsMinKN ==
    caller_pc = "drained" =>
        LET n == Min(SubmittedCount, m_concurrency) IN
        /\ Len(drain_result) = n
        /\ Len(drain_slots) = n
        /\ drain_cursor = m_index
        /\ \A j \in 1 .. n :
              /\ drain_result[j] = Outcome(SubmittedCount - n + j)
              /\ drain_slots[j] =
                    (drain_cursor + (m_concurrency - n) + (j - 1)) % m_concurrency

C3_Witness ==
    /\ caller_pc = "drained"
    /\ m_concurrency = 2
    /\ SubmittedCount = 1
    /\ Len(drain_result) = 1
    /\ drain_slots = << 0 >>
    /\ drain_cursor = 1

\* C4: every outcome drain() returns is Parsed or Error, and when drain()
\* returns every job submitted before it has been completed by its worker.
C4_DrainNonEmptyAndComplete ==
    caller_pc = "drained" =>
        /\ \A j \in 1 .. Len(drain_result) :
              drain_result[j].kind \in {"Parsed", "Error"}
        /\ \A n \in 1 .. SubmittedCount : produced[n] >= 1
        /\ \A s \in Slots :
              /\ m_wake_flag[s] = FALSE
              /\ thread_pc[s] \in {"loop", "wait"}

C4_Witness ==
    /\ caller_pc = "drained"
    /\ SubmittedCount = 2
    /\ m_concurrency = 2
    /\ \A n \in 1 .. 2 : produced[n] = 1
    /\ drain_result[1].kind = "Parsed"
    /\ drain_result[2].kind = "Error"

\* C5: every submitted job gets at most one outcome from its worker and that
\* outcome is handed to the caller at most once; after drain() both counts
\* are exactly one, and a slot's stored outcome is Empty once it was taken.
C5_ExactlyOnce ==
    /\ \A n \in 1 .. SubmittedCount :
          /\ produced[n] <= 1
          /\ Occurrences(returned \o remaining, n) <= produced[n]
    /\ caller_pc = "drained" =>
          \A n \in 1 .. SubmittedCount :
              /\ produced[n] = 1
              /\ Occurrences(returned \o drain_result, n) = 1
    /\ caller_pc \in {"parse_write", "parse_set"} => is_empty(m_futures[index])
    /\ caller_pc = "drained" => \A s \in Slots : is_empty(m_futures[s])

C5_Witness ==
    /\ caller_pc = "drained"
    /\ SubmittedCount = 3
    /\ m_concurrency = 2
    /\ Occurrences(returned, 1) = 1
    /\ Occurrences(drain_result, 3) = 1

\* The slot a job goes to: parse() advances m_index by one per call from 0.
SlotOf(n) == (n - 1) % m_concurrency

\* Job n has been written into its slot by parse().
Written(n) ==
    \/ n < SubmittedCount
    \/ n = SubmittedCount
          /\ caller_pc \notin {"parse_wait", "parse_exchange", "parse_write"}

\* The jobs of slot s that are submitted to it and not yet completed by the
\* worker of the slot.
Pending(s) ==
    {n \in 1 .. SubmittedCount :
        Written(n) /\ SlotOf(n) = s /\ produced[n] = 0}

\* C20: in every reachable state each slot holds at most one job that is
\* submitted but not yet completed, and that job is the one in the slot's
\* input; parse() writes a slot's input only while the slot's wake flag is
\* false, which it has waited for, so the worker of the slot is not reading it.
C20_SlotInvariant ==
    /\ \A s \in Slots :
          /\ Cardinality(Pending(s)) <= 1
          /\ \A n \in Pending(s) : m_inputs[s].m_line_number = n
    /\ caller_pc \in {"parse_exchange", "parse_write"} =>
          /\ m_wake_flag[index] = FALSE
          /\ thread_pc[index] \in {"loop", "wait"}
          /\ Pending(index) = {}

C20_Witness ==
    /\ caller_pc = "parse_write"
    /\ m_concurrency = 2
    /\ SubmittedCount = 4
    /\ index = 1
    /\ m_inputs[1].m_line_number = 2
    /\ produced[2] = 1
    /\ Pending(0) = {3}
    /\ m_wake_flag[0] = TRUE

\* The submitter (parse() or drain()) is about to read, reset or write a buffer
\* of slot s.
SubmitterAccesses(s) ==
    /\ caller_pc \in {"parse_exchange", "parse_write", "drain_exchange"}
    /\ index = s

\* The worker of slot s is about to read the slot's input and store its outcome.
WorkerAccesses(s) == thread_pc[s] = "parse"

\* C21: the flag of a slot is set only after the slot's input was written, the
\* worker reads the input only after it observed the flag set and clears the
\* flag only after it stored the outcome, and the submitter reads or resets
\* the outcome only while the flag is false; so, before teardown, the submitter
\* and the worker never access the buffers of one slot at the same time.
C21_FlagHandoff ==
    \A s \in Slots :
        /\ ~ (SubmitterAccesses(s) /\ WorkerAccesses(s))
        /\ SubmitterAccesses(s) =>
              m_wake_flag[s] = FALSE /\ thread_pc[s] \in {"loop", "wait"}
        /\ (m_wake_flag[s] = TRUE /\ ~ stop_requested[s]) =>
              /\ m_inputs[s].m_line_number \in 1 .. SubmittedCount
              /\ m_inputs[s].m_string = submitted[m_inputs[s].m_line_number]
              /\ ~ (caller_pc = "parse_write" /\ index = s)
        /\ thread_pc[s] \in {"check", "parse", "clear"} => m_wake_flag[s] = TRUE
        /\ thread_pc[s] = "clear" =>
              m_futures[s] = Outcome(m_inputs[s].m_line_number)
        /\ (caller_pc = "parse_set" /\ index = s) =>
              /\ m_wake_flag[s] = FALSE
              /\ m_inputs[s].m_line_number = SubmittedCount

C21_Witness ==
    /\ m_concurrency = 2
    /\ caller_pc = "parse_exchange"
    /\ index = 1
    /\ SubmittedCount = 4
    /\ thread_pc[0] = "parse"
    /\ m_inputs[0].m_line_number = 3
    /\ ~ is_empty(m_futures[1])

\* The destructor has requested stop on every worker and set every flag.
TeardownSignalled == caller_pc \in {"dtor_join", "done"}

AllExited == \A s \in Slots : thread_pc[s] = "exit"

\* A worker decodes only a submitted job that has no outcome yet.
DecodesOnlyJobs ==
    \A s \in Slots :
        thread_pc[s] = "parse" =>
            /\ m_inputs[s].m_line_number \in 1 .. SubmittedCount
            /\ produced[m_inputs[s].m_line_number] = 0

\* C22: once the destructor has requested stop on every worker and set every
\* wake flag, every worker eventually leaves its loop, wherever it was; and a
\* worker woken by teardown alone decodes nothing.
C22_TeardownTerminates ==
    /\ TeardownSignalled ~> AllExited
    /\ [] DecodesOnlyJobs

C22_Witness ==
    /\ caller_pc = "done"
    /\ m_concurrency = 2
    /\ SubmittedCount = 2
    /\ produced[1] = 1
    /\ produced[2] = 0
    /\ AllExited

\* The job in slot s is one whose decoding fails.
FailedIn(s) ==
    /\ m_inputs[s].m_line_number >= 1
    /\ ~ IsValidJson(m_inputs[s].m_string)

\* The slot drain() is waiting for.
DrainSlot == (m_index + loop_i) % m_concurrency

\* The worker of a failed job has stored an Error outcome with the job's text
\* and line number when it comes to clear the flag.
FailureStored ==
    \A s \in Slots :
        (thread_pc[s] = "clear" /\ FailedIn(s)) =>
            m_futures[s] = ErrorResult(m_inputs[s].m_string,
                                       m_inputs[s].m_line_number)

\* C29: a job whose decoding fails completes: its worker stores an Error
\* outcome with the job's text and line number and clears the flag; a parse()
\* or a drain() waiting for a slot whose job failed gets past its wait, and
\* the job that follows a failed first job in slot 0 is decoded unless the
\* pool is torn down first.
C29_FailedJobCompletes ==
    /\ [] FailureStored
    /\ (caller_pc = "parse_wait" /\ FailedIn(m_index))
          ~> (caller_pc # "parse_wait" \/ m_wake_flag[m_index] = FALSE)
    /\ (caller_pc = "drain_wait" /\ FailedIn(DrainSlot))
          ~> (caller_pc # "drain_wait" \/ m_wake_flag[DrainSlot] = FALSE)
    /\ (/\ SubmittedCount > m_concurrency
        /\ ~ IsValidJson(submitted[1])
        /\ m_inputs[0].m_line_number = m_concurrency + 1
        /\ m_wake_flag[0] = TRUE)
          ~> (produced[m_concurrency + 1] >= 1 \/ stop_requested[0])

\* One worker: the first job failed, the second parse() returned its Error
\* outcome and drain() the outcome of the second job.
C29_Witness ==
    /\ caller_pc = "drained"
    /\ m_concurrency = 1
    /\ submitted = << "{", "[1]" >>
    /\ returned = << EmptyResult, ErrorResult("{", 1) >>
    /\ drain_result = << ParsedResult("[1]", 2) >>

-----------------------------------------------------------------------------
(* Properties of load_multi *)

\* All worker threads were joined and none of them recorded an exception.
JoinedWithoutException ==
    /\ multi_pc \in {"assemble", "done"}
    /\ Len(lines) >= 2
    /\ exception_index = no_exception

\* C6: in load_multi of an input with K >= 2 lines, once the workers are
\* joined without an error every line 1..K has been decoded exactly once and
\* its value is stored at the output position equal to its line position,
\* whatever K and whatever worker count was chosen; no line is skipped.
C6_EveryLineDecodedOnce ==
    JoinedWithoutException =>
        \A k \in 1 .. Len(lines) :
            /\ decode_count[k] = 1
            /\ cell[k] = parse_octave_value(lines[k][1])

\* Four lines and two workers: block_size is 3 \div 2 = 1, the blocks cover
\* lines 2 and 3, and line 4 is left undecoded with its position undefined.
C6_Witness ==
    /\ JoinedWithoutException
    /\ Len(lines) = 4
    /\ concurrency = 2
    /\ block_size = 1
    /\ decode_count = << 1, 1, 1, 0 >>
    /\ cell[4] = UndefinedValue

-----------------------------------------------------------------------------
(* Properties of Schema::is_same *)

ScalarKind(type) ==
    CASE type \in {"INT64", "UINT64", "DOUBLE"} -> "Number"
      [] type = "STRING" -> "String"
      [] type = "BOOL" -> "Bool"
      [] type = "NULL_VALUE" -> "Null"
      [] OTHER -> type

RECURSIVE Shape(_)

\* A document without its scalar values: containers, field names in order,
\* and the kind of every scalar.
Shape(doc) ==
    [type |-> ScalarKind(doc.type),
     keys |-> doc.keys,
     elems |-> [k \in 1 .. Len(doc.elems) |-> Shape(doc.elems[k])],
     value |-> 0]

AnyArray == [tag |-> "Array", val |-> "Any"]

RECURSIVE WildcardFrom(_, _, _)

\* depth: the number of arrays open before position k
WildcardFrom(parts, k, depth) ==
    IF k > Len(parts) THEN << >>
    ELSE IF depth = 0
    THEN IF parts[k] = ArrayBegin
         THEN << AnyArray >> \o WildcardFrom(parts, k + 1, 1)
         ELSE << parts[k] >> \o WildcardFrom(parts, k + 1, 0)
    ELSE WildcardFrom(parts, k + 1,
                      IF parts[k] = ArrayBegin THEN depth + 1
                      ELSE IF parts[k] = ArrayEnd THEN depth - 1
                      ELSE depth)

\* The parts with every outermost array subtree, ArrayBegin through its
\* matching ArrayEnd, replaced by one wildcard part.
Wildcard(parts) == WildcardFrom(parts, 1, 0)

Count(seq, x) == Cardinality({k \in 1 .. Len(seq) : seq[k] = x})

IsPermutation(s, t) ==
    /\ Len(s) = Len(t)
    /\ \A k \in 1 .. Len(s) : Count(s, s[k]) = Count(t, s[k])

\* C7: is_same(other, false) is true exactly when the two part sequences have
\* equal length and equal parts at every position, that is, when the two
\* documents have the same field names in the same order, the same array
\* lengths, the same nesting and the same scalar kinds.
C7_StrictIffIdentical ==
    FALSE \in DOMAIN same =>
        /\ same[FALSE] = (schema_a = schema_b)
        /\ same[FALSE] = (Shape(doc_a) = Shape(doc_b))

C7_Witness ==
    /\ FALSE \in DOMAIN same
    /\ same[FALSE]
    /\ doc_a = DocADouble
    /\ doc_b = ObjectDoc(<< "a" >>, << ScalarDoc("INT64") >>)

\* C8: on schemas built from documents, is_same(other, true) reads no part
\* past the end and is true exactly when the two sequences are identical
\* after every outermost array subtree is replaced by one wildcard part.
C8_DynamicIffWildcardEqual ==
    /\ schema_pc = "built" =>
          is_same_walk(schema_a, schema_b, 1, 1) # "undefined"
    /\ TRUE \in DOMAIN same =>
          same[TRUE] = (Wildcard(schema_a) = Wildcard(schema_b))

\* {"a":[1,2]} against {"a":[1,2,3,"x"]}: same in DynamicArray mode,
\* different in Strict mode.
C8_Witness ==
    /\ doc_a = DocA12
    /\ doc_b = DocA123x
    /\ DOMAIN same = BOOLEAN
    /\ same[TRUE]
    /\ ~ same[FALSE]

\* C9: two schemas built from identical documents are the same with
\* dynamic_array = false and with dynamic_array = true.
C9_IdenticalDocumentsSame ==
    (schema_pc = "built" /\ doc_a = doc_b) =>
        /\ schema_a = schema_b
        /\ \A d \in DOMAIN same : same[d]

C9_Witness ==
    /\ doc_a = DocA123x
    /\ doc_b = DocA123x
    /\ DOMAIN same = BOOLEAN
    /\ same[FALSE]
    /\ same[TRUE]

\* The two documents are objects with the same field names in another order.
RootKeysReordered ==
    /\ doc_a.type = "OBJECT"
    /\ doc_b.type = "OBJECT"
    /\ doc_a.keys # doc_b.keys
    /\ IsPermutation(doc_a.keys, doc_b.keys)

\* C10: two objects with the same fields in a different order are a mismatch
\* with dynamic_array = false and with dynamic_array = true.
C10_KeyOrderMatters ==
    RootKeysReordered => \A d \in DOMAIN same : ~ same[d]

\* {"a":1,"b":2} against {"b":2,"a":1}
C10_Witness ==
    /\ doc_a = DocAB
    /\ doc_b = DocBA
    /\ DOMAIN same = BOOLEAN
    /\ ~ same[FALSE]
    /\ ~ same[TRUE]

\* The threads that won the compare-and-set and have yet to store their exception.
Storing == {t \in Threads : block_pc[t] \in {"store_simdjson", "store_schema"}}

\* The exception line n (1-based) raises in a worker or as the first line.
ExceptionOf(n) ==
    IF parse_error(lines[n]) THEN SimdjsonError ELSE MismatchedSchema(n)

\* Line n does fail: it is malformed, or its schema can differ from the reference.
Fails(n) ==
    \/ parse_error(lines[n])
    \/ /\ n > 1
       /\ mode # "Relaxed"
       /\ FALSE \in is_same(reference_schema, build_schema(<< >>, lines[n][1]),
                            mode = "DynamicArray")

\* C23: of the workers that fail only the one whose compare-and-set on the
\* error index succeeds records its line index and its exception; after the
\* join the recorded exception is the one raised for the recorded line, and
\* load_multi reports that one error.
C23_OneErrorRetained ==
    /\ Cardinality(Storing) <= 1
    /\ \A t \in Storing :
          exception_index = BlockLine(t) - 1 /\ exception = NoException
    /\ exception # NoException =>
          /\ exception_index # no_exception
          /\ Fails(exception_index + 1)
          /\ exception = ExceptionOf(exception_index + 1)
    /\ multi_pc = "catch" => exception # NoException
    /\ (multi_pc = "done" /\ Len(lines) >= 2) =>
          IF exception_index # no_exception
          THEN multi_result = ParsingError(ExceptionOf(exception_index + 1),
                                           exception_index + 1)
          ELSE multi_result.status # "error" \/ multi_result = WrongTypeError

\* Two workers fail; the worker of the later line won, the failure of the
\* worker of line 2 is discarded and the error reported is that of line 3.
C23_Witness ==
    /\ multi_pc = "done"
    /\ Len(lines) = 3
    /\ concurrency = 2
    /\ Fails(2)
    /\ Fails(3)
    /\ ExceptionOf(2) # ExceptionOf(3)
    /\ multi_result = ParsingError(ExceptionOf(3), 3)

\* The lines (numbered from 1) of the block given to worker t.
BlockLines(t) == {BlockOffset(t) + i + 2 : i \in 0 .. (BlockLength(t) - 1)}

\* A worker thread has been started.
WorkersStarted == \E t \in Threads : block_pc[t] # "unborn"

\* C28: the blocks of lines given to the workers of load_multi are pairwise
\* disjoint and none holds the first line, no entry of the shared cell is
\* written twice, and the reference schema is the finished schema of the
\* first line from the start of the first worker on.
C28_BlocksDisjoint ==
    /\ \A t \in Threads :
          /\ BlockLines(t) \subseteq 2 .. Len(lines)
          /\ \A u \in Threads : u # t => BlockLines(t) \cap BlockLines(u) = {}
          /\ block_pc[t] = "parse" => BlockLine(t) \in BlockLines(t)
    /\ \A k \in 1 .. Len(decode_count) : decode_count[k] <= 1
    /\ WorkersStarted =>
          reference_schema = IF mode = "Relaxed" THEN << >>
                             ELSE build_schema(<< >>, lines[1][1])

\* Two workers are decoding lines 2 and 3 of four at the same time.
C28_Witness ==
    /\ Len(lines) = 4
    /\ concurrency = 2
    /\ mode = "Strict"
    /\ block_pc[0] = "parse"
    /\ block_pc[1] = "parse"
    /\ BlockLines(0) = {2}
    /\ BlockLines(1) = {3}
    /\ decode_count[1] = 1
    /\ reference_schema # << >>

\* C30: for schemas a and b built from documents, a.is_same(b, d) equals
\* b.is_same(a, d) for both values of d, and a.is_same(b, false) implies
\* a.is_same(b, true).
C30_SymmetricAndStrictImpliesDynamic ==
    /\ \A d \in DOMAIN same : is_same(schema_b, schema_a, d) = {same[d]}
    /\ (DOMAIN same = BOOLEAN /\ same[FALSE]) => same[TRUE]

\* {"a":[1,2]} against {"a":[1,2,3,"x"]}: different under Strict and the same
\* under DynamicArray, in both directions.
C30_Witness ==
    /\ doc_a = DocA123x
    /\ doc_b = DocA12
    /\ DOMAIN same = BOOLEAN
    /\ ~ same[FALSE]
    /\ same[TRUE]
    /\ is_same(schema_b, schema_a, TRUE) = {TRUE}
    /\ is_same(schema_b, schema_a, FALSE) = {FALSE}

-----------------------------------------------------------------------------
(* Properties of build_schema *)

RECURSIVE ValueEnd(_, _), ArrayRest(_, _), ObjectRest(_, _)

\* The position after the token run of the value that starts at position p,
\* or 0 when no complete, properly nested value starts there.
ValueEnd(parts, p) ==
    IF p > Len(parts) THEN 0
    ELSE IF parts[p].tag = "Scalar" THEN p + 1
    ELSE IF parts[p] = ArrayBegin THEN ArrayRest(parts, p + 1)
    ELSE IF parts[p] = ObjectBegin THEN ObjectRest(parts, p + 1)
    ELSE 0

\* Inside an array from position q on: values up to the matching ArrayEnd.
ArrayRest(parts, q) ==
    IF q > Len(parts) THEN 0
    ELSE IF parts[q] = ArrayEnd THEN q + 1
    ELSE LET e == ValueEnd(parts, q) IN
         IF e = 0 THEN 0 ELSE ArrayRest(parts, e)

\* Inside an object from position q on: a Key and the token run of its value,
\* repeated up to the matching ObjectEnd.
ObjectRest(parts, q) ==
    IF q > Len(parts) THEN 0
    ELSE IF parts[q] = ObjectEnd THEN q + 1
    ELSE IF parts[q].tag = "Key"
    THEN LET e == ValueEnd(parts, q + 1) IN
         IF e = 0 THEN 0 ELSE ObjectRest(parts, e)
    ELSE 0

\* The parts are the token run of exactly one value.
WellFormed(parts) == ValueEnd(parts, 1) = Len(parts) + 1

RECURSIVE DocKeys(_), DocKeysOfElems(_, _), PartCount(_), PartCountOfElems(_, _)

\* The keys of a document in the order they are met in its text.
DocKeys(elem) ==
    IF elem.type \in {"ARRAY", "OBJECT"} THEN DocKeysOfElems(elem, 1) ELSE << >>

DocKeysOfElems(elem, k) ==
    IF k > Len(elem.elems) THEN << >>
    ELSE (IF elem.type = "OBJECT" THEN << elem.keys[k] >> ELSE << >>)
         \o DocKeys(elem.elems[k]) \o DocKeysOfElems(elem, k + 1)

\* The number of tokens of a document: one per scalar and per key, two per
\* array and per object.
PartCount(elem) ==
    IF elem.type \in {"ARRAY", "OBJECT"} THEN 2 + PartCountOfElems(elem, 1) ELSE 1

PartCountOfElems(elem, k) ==
    IF k > Len(elem.elems) THEN 0
    ELSE (IF elem.type = "OBJECT" THEN 1 ELSE 0)
         + PartCount(elem.elems[k]) + PartCountOfElems(elem, k + 1)

\* The keys of a schema, in order.
SchemaKeys(parts) ==
    LET keys == SelectSeq(parts, LAMBDA part : part.tag = "Key")
    IN  [k \in 1 .. Len(keys) |-> keys[k].val]

EncodesOnly(parts, elem) ==
    /\ WellFormed(parts)
    /\ Len(parts) = PartCount(elem)
    /\ SchemaKeys(parts) = DocKeys(elem)

\* C24: the schema built from a document is the token run of one properly
\* nested value, every Key directly inside an object and followed by the
\* complete run of its value, the keys in document order; and the schema
\* built for the second document holds the tokens of that document alone.
C24_SchemaWellFormed ==
    schema_pc = "built" =>
        /\ EncodesOnly(schema_a, doc_a)
        /\ EncodesOnly(schema_b, doc_b)

C24_Witness ==
    /\ schema_pc = "built"
    /\ doc_a = DocAB
    /\ doc_b \in DocsOfSize(6)
    /\ doc_b.type = "ARRAY"
    /\ Len(doc_b.elems) = 1
    /\ doc_b.elems[1].type = "OBJECT"
    /\ Len(SchemaKeys(schema_b)) = 1
    /\ Len(schema_b) = 6

-----------------------------------------------------------------------------
(* Properties of split *)

RECURSIVE Segments(_)
\* The maximal non-empty newline-free segments of a text, in order.
Segments(str) ==
    IF str = << >> THEN << >>
    ELSE IF Head(str) = Newline THEN Segments(Tail(str))
    ELSE LET newlines == {i \in 1 .. Len(str) : str[i] = Newline}
             n == IF newlines = {} THEN Len(str)
                  ELSE (CHOOSE i \in newlines : \A j \in newlines : i <= j) - 1
         IN  << SubSeq(str, 1, n) >> \o Segments(SubSeq(str, n + 1, Len(str)))

\* C26: split(str, '\n') returns, in order, exactly the maximal non-empty
\* newline-free segments of str, so no record is empty whatever blank lines,
\* leading or trailing newlines str has, and the scan reads str only at
\* indices below its size.
C26_SplitSegments ==
    multi_pc = "split_done" =>
        /\ lines = Segments(string)
        /\ \A k \in split_reads(string, 0) : k < Len(string)

\* "x\n\n": the scan reads the text at its size and an empty record follows
\* the segment.
C26_Witness ==
    /\ multi_pc = "split_done"
    /\ string = << DocA12, Newline, Newline >>
    /\ lines = << << DocA12 >>, << >> >>
    /\ Len(string) \in split_reads(string, 0)

\* Blank lines and leading newlines are handled.
C26_InnerNewlinesWitness ==
    /\ multi_pc = "split_done"
    /\ string = << Newline, DocA12, Newline, Newline, Malformed >>
    /\ lines = << << DocA12 >>, << Malformed >> >>

\* Restricted to texts that do not end in two newlines and are not newlines
\* only, split returns the segments and stays below the size.
C26_SplitSegmentsWithoutTrailingRun ==
    (/\ multi_pc = "split_done"
     /\ Segments(string) # << >>
     /\ ~ (Len(string) >= 2 /\ string[Len(string)] = Newline
                             /\ string[Len(string) - 1] = Newline)) =>
        /\ lines = Segments(string)
        /\ \A k \in split_reads(string, 0) : k < Len(string)

-----------------------------------------------------------------------------
(* Properties of load *)

\* load is running or has finished.
LoadEntered == load_pc \in {"loop", "assemble", "done"}

\* The loop over the stream ended with an error at document load_it.
LoadAborted == load_pc = "done" /\ load_it <= Len(Documents(string))

\* The loop over the stream reached the end of the stream.
LoadCompleted == load_pc \in {"assemble", "done"} /\ load_it > Len(Documents(string))

UpTo(n) == [k \in 1 .. n |-> k]

\* Two documents have compatible schemas under a mode: the same shape, or in
\* DynamicArray mode the same shape outside the outermost arrays.
Compatible(a, b, parse_mode) ==
    CASE parse_mode = "Strict" -> Shape(a) = Shape(b)
      [] parse_mode = "DynamicArray" ->
            Wildcard(build_schema(<< >>, a)) = Wildcard(build_schema(<< >>, b))
      [] OTHER -> TRUE

\* C11: in load with mode Strict or DynamicArray the reference schema, once
\* set, is the schema of the first document; the documents are decoded and
\* compared with it in document order; the load stops at the first document
\* that does not match, with an error and no value, having decoded no later
\* document and appended neither it nor a later one; and when the loop ends
\* without an error every document is compatible with the first one.
C11_ReferenceIsFirstAndFirstMismatchAborts ==
    (LoadEntered /\ mode # "Relaxed") =>
        LET stream == Documents(string) IN
        /\ load_reference.has_value =>
              load_reference.m_parts = build_schema(<< >>, stream[1])
        /\ load_reference.has_value = (load_compared # << >>)
        /\ load_compared = UpTo(Len(load_compared))
        /\ load_decoded = load_compared
        /\ docs = [k \in 1 .. Len(docs) |-> parse_octave_value(stream[k])]
        /\ \A k \in 1 .. Len(docs) : Compatible(stream[1], stream[k], mode)
        /\ LoadAborted =>
              /\ load_result.status = "error"
              /\ load_result.value = UndefinedValue
              /\ Len(docs) = load_it - 1
              /\ Len(load_decoded) <= load_it
              /\ stream[load_it] # Malformed =>
                    /\ load_result.what = "Mismatched schema"
                    /\ load_decoded = UpTo(load_it)
                    /\ ~ Compatible(stream[1], stream[load_it], mode)
        /\ ~ LoadAborted => Len(docs) = load_it - 1
        /\ LoadCompleted => Len(docs) = Len(stream)

\* {"a":1}, {"a":2,"b":3}, {"a":1} in Strict mode: the load stops at the
\* second document; the third is never decoded.
C11_Witness ==
    /\ loader = "load"
    /\ mode = "Strict"
    /\ Documents(string) = << ObjA1, ObjA2B3, ObjA1 >>
    /\ LoadAborted
    /\ load_result.what = "Mismatched schema"
    /\ load_decoded = << 1, 2 >>
    /\ docs = << parse_octave_value(ObjA1) >>

\* The loader the caller invoked has returned or raised.
LoaderDone ==
    \/ loader = "load" /\ load_pc = "done"
    \/ loader = "load_multi" /\ multi_pc = "done"

\* What the caller got
LoaderResult == IF loader = "load" THEN load_result ELSE multi_result

\* Every document of the input is syntactically valid.
AllValid == \A k \in 1 .. Len(string) : string[k] # Malformed

\* The decoded values of the documents of the input, in input order
DecodedDocuments ==
    [k \in 1 .. Len(Documents(string)) |-> parse_octave_value(Documents(string)[k])]

\* C12: under Relaxed mode no schema is compared, and every input made of
\* syntactically valid documents loads successfully, with load and with
\* load_multi; the result holds the decoded value of every document, one
\* per document in input order (for a single document: that value, or a
\* list holding it; nothing is asked of the value for an empty input).
C12_RelaxedLoadsEveryDocument ==
    (LoaderDone /\ mode = "Relaxed" /\ AllValid) =>
        /\ load_compared = << >>
        /\ LoaderResult.status = "ok"
        /\ \/ Len(DecodedDocuments) = 0
           \/ /\ Len(DecodedDocuments) = 1
              /\ LoaderResult.value = DecodedDocuments[1]
           \/ /\ iscell(LoaderResult.value)
              /\ LoaderResult.value.data = DecodedDocuments

\* load_multi in Relaxed mode on four valid lines with two workers returns a
\* list whose fourth entry was never assigned.
C12_Witness ==
    /\ loader = "load_multi"
    /\ mode = "Relaxed"
    /\ AllValid
    /\ Len(lines) = 4
    /\ concurrency = 2
    /\ multi_pc = "done"
    /\ multi_result.status = "ok"
    /\ multi_result.value.data[4] = UndefinedValue

\* The positions, from 1, of the valid documents that are not compatible with
\* the first document under the mode
Mismatches ==
    {n \in 1 .. Len(Documents(string)) :
        /\ Documents(string)[n] # Malformed
        /\ ~ Compatible(Documents(string)[1], Documents(string)[n], mode)}

FirstMismatch == CHOOSE n \in Mismatches : \A m \in Mismatches : n <= m

\* C13: a schema-mismatch error names the 1-based position in the input of
\* the first document that does not match, in load and in load_multi.
C13_MismatchNamesFirstOffender ==
    (LoaderDone /\ LoaderResult.status = "error"
                /\ LoaderResult.what = "Mismatched schema") =>
        /\ Mismatches # {}
        /\ LoaderResult.number = FirstMismatch

\* {"a":1} then {"a":2,"b":3} in Strict mode with load: the second document
\* is the offender and the message says "document number: 1".
C13_Witness ==
    /\ loader = "load"
    /\ mode = "Strict"
    /\ Documents(string) = << ObjA1, ObjA2B3 >>
    /\ load_pc = "done"
    /\ load_result.what = "Mismatched schema"
    /\ FirstMismatch = 2
    /\ load_result.number = 1

\* load_multi, Strict, lines 2 and 3 both mismatch and sit in different
\* blocks: the worker of line 3 may win the exchange, and line 3 is named.
C13_LaterOffenderNamed ==
    /\ loader = "load_multi"
    /\ multi_pc = "done"
    /\ multi_result.what = "Mismatched schema"
    /\ Mismatches = {2, 3}
    /\ multi_result.number = 3
    /\ multi_result.line = 3

\* C14: when the input holds exactly one document, an object or an array,
\* the loader returns the decoded value of that document itself, in Strict,
\* DynamicArray and Relaxed mode.
C14_SingleDocumentUnwrapped ==
    (LoaderDone /\ Len(Documents(string)) = 1
                /\ Documents(string)[1].type \in {"OBJECT", "ARRAY"}) =>
        /\ LoaderResult.status = "ok"
        /\ LoaderResult.value = DecodedDocuments[1]

\* The single document [true,false] in Strict mode: it decodes to a boolean
\* column, which is neither numeric nor a cell, and cell_value() raises.
C14_Witness ==
    /\ loader = "load"
    /\ mode = "Strict"
    /\ Documents(string) = << ArrTF >>
    /\ load_reference.has_value
    /\ docs = << Column("bool", << TRUE, FALSE >>) >>
    /\ load_pc = "done"
    /\ load_result = WrongTypeError

\* The record of columns of the decoded documents: the fields of the first
\* document in its order, entry k of a column the field's value in document k
RecordOfColumns ==
    LET field_names == Documents(string)[1].keys IN
    OctaveValue("struct", << Len(DecodedDocuments), 1 >>,
                [f \in 1 .. Len(field_names) |->
                    [k \in 1 .. Len(DecodedDocuments) |->
                        getfield_scalar(DecodedDocuments[k], field_names[f])]],
                field_names)

\* C15: with more than one document, all of them valid and compatible with the
\* first, which is an object, and a mode other than Relaxed, the loader
\* returns a record of columns: one column per field of the first document,
\* in its field order, entry k of column f being the value of field f in
\* document k; also when the documents are objects without fields.
C15_ManyObjectsTransposed ==
    (LoaderDone /\ mode # "Relaxed" /\ AllValid /\ Mismatches = {}
                /\ Len(Documents(string)) > 1
                /\ Documents(string)[1].type = "OBJECT") =>
        /\ LoaderResult.status = "ok"
        /\ LoaderResult.value = RecordOfColumns

\* load_multi in Strict mode on four equal lines {"a":[1,2]} with two
\* workers: the fourth line is never decoded and the transposition raises.
C15_Witness ==
    /\ loader = "load_multi"
    /\ mode = "Strict"
    /\ Documents(string) = << DocA12, DocA12, DocA12, DocA12 >>
    /\ concurrency = 2
    /\ multi_pc = "done"
    /\ multi_result = WrongTypeError

\* load in Strict mode on {} {}: the result is a 1x2 list of two records
\* without fields.
C15_EmptyObjectsListed ==
    /\ loader = "load"
    /\ mode = "Strict"
    /\ Documents(string) = << EmptyObject, EmptyObject >>
    /\ load_pc = "done"
    /\ load_result = Returned(RowCell(<< EmptyScalarMap, EmptyScalarMap >>))

\* The final assembly of load is about to evaluate
\* reference_schema->root_is_object(): with one document always, otherwise
\* when the mode is not Relaxed.
ReadsReference ==
    /\ load_pc = "assemble"
    /\ (Len(docs) = 1 \/ mode # "Relaxed")

\* C25: whenever the final assembly of load reads the reference schema, a
\* reference schema has been recorded, in every mode and for every number of
\* documents.
C25_ReferenceRecordedWhenRead ==
    ReadsReference => load_reference.has_value

\* Relaxed mode, one document: the loop never recorded a reference and the
\* assembly reads it.
C25_Witness ==
    /\ loader = "load"
    /\ mode = "Relaxed"
    /\ Len(Documents(string)) = 1
    /\ Len(docs) = 1
    /\ ReadsReference
    /\ load_reference = NoSchema

\* No document at all, mode Strict: the assembly still reads the reference.
C25_EmptyInputRead ==
    /\ loader = "load"
    /\ mode = "Strict"
    /\ Len(Documents(string)) = 0
    /\ ReadsReference
    /\ load_reference = NoSchema

-----------------------------------------------------------------------------
(* Properties of parse_octave_value *)

\* parse_octave_value has returned.
Decoded == decode_pc = "done"

\* Every element of the array is a number or null.
AllNumbersOrNull ==
    \A k \in 1 .. Len(json.elems) : is_number(json.elems[k]) \/ is_null(json.elems[k])

\* All elements of the array are of the type of the first one.
AllOfOneType ==
    \A k \in 1 .. Len(json.elems) : json.elems[k].type = json.elems[1].type

\* C16: a non-empty array whose elements are each a number or null decodes
\* to a dense numeric column of the array's length, element i being the i-th
\* number (as a double; the model's numbers are exactly representable) and NaN
\* where the i-th element is null.  An array with an element of another kind
\* does not take that branch: with mixed kinds or strings it decodes to the
\* list of its decoded elements in element order, and a numeric result then
\* only comes from consolidating sub-arrays.
C16_NumericColumn ==
    (Decoded /\ Len(json.elems) > 0) =>
        /\ AllNumbersOrNull =>
              /\ decoded.class = "double"
              /\ decoded.dims = << Len(json.elems), 1 >>
              /\ \A i \in 1 .. Len(json.elems) :
                    decoded.data[i] = IF is_null(json.elems[i]) THEN NaN
                                      ELSE Double(json.elems[i].value)
        /\ (~ AllNumbersOrNull /\ (~ AllOfOneType \/ json.elems[1].type = "STRING")) =>
              decoded = Column("cell", [i \in 1 .. Len(json.elems) |->
                                           parse_octave_value(json.elems[i])])
        /\ (~ AllNumbersOrNull /\ decoded.class = "double") =>
              \A k \in 1 .. Len(json.elems) : json.elems[k].type = "ARRAY"

\* [1,null,2] decodes to the column (1, NaN, 2).
C16_Witness ==
    /\ Decoded
    /\ json = ArrayDoc(<< Int1, Null, Int2 >>)
    /\ decoded = Column("double", << Double(1), NaN, Double(2) >>)

\* [1,"x",2] decodes to a list of length 3 in element order.
C16_MixedListed ==
    /\ Decoded
    /\ json = ArrayDoc(<< Int1, StringX, Int2 >>)
    /\ decoded = Column("cell", << DoubleScalar(1), CharString("x"), DoubleScalar(2) >>)

\* Every element of the array is an object.
AllObjects ==
    /\ Len(json.elems) > 0
    /\ \A k \in 1 .. Len(json.elems) : json.elems[k].type = "OBJECT"

\* The set of the field names of an object
FieldSet(object) == {object.keys[j] : j \in 1 .. Len(object.keys)}

\* All elements have the field names of the first one, in whatever order.
SameFieldSets ==
    \A k \in 1 .. Len(json.elems) : FieldSet(json.elems[k]) = FieldSet(json.elems[1])

\* The record-array of the elements: the columns in the first element's field
\* order, column f holding at index k the value of field f of element k
RecordArray ==
    LET field_names == json.elems[1].keys IN
    OctaveValue("struct", << Len(json.elems), 1 >>,
                [f \in 1 .. Len(field_names) |->
                    [k \in 1 .. Len(json.elems) |->
                        getfield_scalar(parse_octave_value(json.elems[k]),
                                        field_names[f])]],
                field_names)

\* The list of the decoded elements, in element order
ListOfElements ==
    Column("cell", [k \in 1 .. Len(json.elems) |-> parse_octave_value(json.elems[k])])

\* C17: an array whose elements are all objects decodes to a record-array
\* (columns in the first element's field order, column f holding element k's
\* field f at index k) if all elements have the same set of field names,
\* compared without regard to field order, and to the list of the
\* per-element records if the sets differ.
C17_ObjectArrayBySet ==
    (Decoded /\ AllObjects) =>
        decoded = IF SameFieldSets THEN RecordArray ELSE ListOfElements

\* All elements have the field names of the first one in the same order.
SameFieldLists ==
    \A k \in 1 .. Len(json.elems) : json.elems[k].keys = json.elems[1].keys

\* C17, as the decoder behaves: the record-array is built if all elements
\* have the same field names in the same order; otherwise, also when only the
\* order of the names differs, the result is the list of the per-element
\* records.
C17_ObjectArrayByOrderedNames ==
    (Decoded /\ AllObjects) =>
        decoded = IF SameFieldLists THEN RecordArray ELSE ListOfElements

\* [{"a":1},{"a":2}] gives one field a = [1,2].
C17_Witness ==
    /\ Decoded
    /\ json = ArrayDoc(<< ObjA1, ObjA2 >>)
    /\ decoded = OctaveValue("struct", << 2, 1 >>,
                             << << DoubleScalar(1), DoubleScalar(2) >> >>,
                             << "a" >>)

\* [{"a":1,"b":2},{"b":2,"a":1}] decodes to the list of the two records.
C17_ReorderedListed ==
    /\ Decoded
    /\ json = ArrayDoc(<< ObjA1B2, ObjB2A1 >>)
    /\ SameFieldSets
    /\ decoded = ListOfElements
    /\ decoded # RecordArray

\* The decoded elements of the array
SubArrays == [k \in 1 .. Len(json.elems) |-> parse_octave_value(json.elems[k])]

\* The array holds N >= 1 sub-arrays that all decode to dense containers
\* (numeric or boolean) of the same kind and the same, non-empty, dimensions.
UniformSubArrays ==
    /\ Len(json.elems) > 0
    /\ \A k \in 1 .. Len(json.elems) :
          /\ json.elems[k].type = "ARRAY"
          /\ SubArrays[k].class \in {"double", "bool"}
          /\ SubArrays[k].class = SubArrays[1].class
          /\ SubArrays[k].dims = SubArrays[1].dims
    /\ SubArrays[1].dims # << 0, 0 >>

-----------------------------------------------------------------------------
(* Properties of two runs of a load *)

\* The second run has ended.
SecondRunDone == run = 2 /\ LoaderDone

\* C19: two runs of the same load on the same input and mode return the same
\* decoded value: when one of the runs returns a value, the other returns
\* that value too, however the worker threads of load_multi interleave in
\* either run.
C19_SameValueTwice ==
    (SecondRunDone /\ (first_run.result.status = "ok" \/ LoaderResult.status = "ok")) =>
        LoaderResult = first_run.result

\* load in Relaxed mode on the single document [1,2]: one run returns the
\* column (1, 2), the other raises.
C19_Witness ==
    /\ SecondRunDone
    /\ loader = "load"
    /\ mode = "Relaxed"
    /\ Documents(string) = << Arr12 >>
    /\ first_run.result = Returned(Column("double", << Double(1), Double(2) >>))
    /\ load_result = WrongTypeError

\* load_multi has returned a value twice, from four lines and two workers.
C19_MultiTwice ==
    /\ SecondRunDone
    /\ loader = "load_multi"
    /\ Len(lines) = 4
    /\ concurrency = 2
    /\ first_run.result.status = "ok"
    /\ multi_result = first_run.result

\* With two lines or more, load_multi returns the same value in both runs.
C19_MultiSameValueTwice ==
    (SecondRunDone /\ loader = "load_multi" /\ Len(lines) >= 2
        /\ (first_run.result.status = "ok" \/ multi_result.status = "ok")) =>
        multi_result = first_run.result

-----------------------------------------------------------------------------
(* Properties of load and load_multi on one input *)

\* load_multi has ended on the input load ended on before.
BothDone == run = 2 /\ loader = "load_multi" /\ multi_pc = "done"

\* Two returned values hold the same per-document values in the same order
\* (a row and a column of the same entries do).
SameValuesHeld(v, w) ==
    /\ v.class = w.class
    /\ v.keys = w.keys
    /\ v.data = w.data

\* C27: for an input of K >= 2 syntactically valid documents, one per line,
\* and any mode, load and load_multi both succeed or both fail, and when they
\* succeed they hold the same per-document decoded values in the same order.
C27_LoadersAgree ==
    (BothDone /\ AllValid /\ Len(Documents(string)) >= 2) =>
        /\ (first_run.result.status = "ok") <=> (multi_result.status = "ok")
        /\ (first_run.result.status = "ok" /\ multi_result.status = "ok") =>
              SameValuesHeld(first_run.result.value, multi_result.value)

\* Four equal lines {"a":[1,2]} in Relaxed mode, two workers: both loaders
\* return a list, that of load_multi without a value for the fourth line.
C27_Witness ==
    /\ BothDone
    /\ mode = "Relaxed"
    /\ Documents(string) = << DocA12, DocA12, DocA12, DocA12 >>
    /\ concurrency = 2
    /\ first_run.result.status = "ok"
    /\ first_run.result.value.data = DecodedDocuments
    /\ multi_result.status = "ok"
    /\ multi_result.value.data[4] = UndefinedValue

\* The same lines in Strict mode: load returns the record of columns,
\* load_multi raises.
C27_OneFails ==
    /\ BothDone
    /\ mode = "Strict"
    /\ Documents(string) = << DocA12, DocA12, DocA12, DocA12 >>
    /\ concurrency = 2
    /\ first_run.result.status = "ok"
    /\ multi_result = WrongTypeError

\* When the lines after the first divide evenly among the workers, the two
\* loaders agree.
C27_LoadersAgreeOnEvenBlocks ==
    (BothDone /\ AllValid /\ Len(Documents(string)) >= 2
              /\ (Len(lines) - 1) % concurrency = 0) =>
        /\ (first_run.result.status = "ok") <=> (multi_result.status = "ok")
        /\ (first_run.result.status = "ok" /\ multi_result.status = "ok") =>
              SameValuesHeld(first_run.result.value, multi_result.value)

====
